---- MODULE Spec2Model ----
(***************************************************************************)
(* A model of the OptiMerge back end (backend/app).                        *)
(*                                                                         *)
(* Modelling conventions                                                   *)
(*  - A Python str on which the code does string work (strip, substring,   *)
(*    regex) is a sequence of one-character strings: <<"A", "1">>.         *)
(*  - A Python float is an exact fixed-point number: the integer value     *)
(*    times Scale.  round(x, n) is RoundDiv to the matching unit.          *)
(*  - A pandas DataFrame is a record [columns, rows]; a row is a record    *)
(*    of its cells.                                                        *)
(*  - A dict is a function; a list built by iterating a dict or a set is   *)
(*    a set when the iteration order is Python's own, a sequence when the  *)
(*    code sorts it.                                                       *)
(*  - uuid4() is a fresh id: the next integer of next_id.                  *)
(*                                                                         *)
(* Specifications                                                          *)
(*  - Spec: the web service of main.py, one action for each endpoint, and  *)
(*    the MongoDB server going down and coming back.                       *)
(*  - TableSpec: preprocess_bom_file and analyze_bom_data (bom_utils.py    *)
(*    and main.py) and calculate_bom_savings (bom_savings_utils.py)        *)
(*    applied to small BOM tables.                                         *)
(*  - SimilaritySpec: compute_bom_similarity (bom_utils.py and main.py),   *)
(*    calculate_similarity_matrix (bom_analysis.py) and                    *)
(*    generate_component_replacement_table applied to small dictionaries   *)
(*    of component maps.                                                   *)
(*  - UtilSpec: clean_column_name, calculate_reduction_potential and the   *)
(*    cluster count of the dimensional clustering, applied to short names, *)
(*    small cluster lists and row counts.                                  *)
(*  - ClusterSpec: find_assembly_clusters (bom_utils.py and main.py) on    *)
(*    any similarity matrix over a few assemblies.                         *)
(*  - PipelineSpec: run_clustering (ml_pipeline.py) on small tables.       *)
(*  - HeaderSpec: preprocess_bom_file on tables with any header.           *)
(*  - UploadSpec: two upload requests of main.py whose handlers interleave *)
(*    at the awaited read of the request body.                             *)
(***************************************************************************)
EXTENDS Integers, Sequences, FiniteSets, TLC

VARIABLES
    weldment_data,        \* main.py: weldment_data  (file id -> uploaded file)
    bom_data,             \* main.py: bom_data       (file id -> uploaded file)
    analysis_results,     \* main.py: analysis_results (analysis id -> result)
    analysis_collection,  \* db.py: analysis_collection (documents, keyed by "id")
    db_up,                \* whether the MongoDB server answers
    next_id,              \* the ids generate_file_id() has handed out so far
    uploads_dir,          \* the names of the files in uploads/
    response,             \* the HTTP response of the last request
    fn,                   \* library checks: the function applied
    input,                \* library checks: its argument
    output,               \* library checks: its result
    handlers,             \* uploads in flight: each handler's position and file
    files                 \* uploads/: the bytes of each file, where uploads interleave

vars == <<weldment_data, bom_data, analysis_results, analysis_collection,
          db_up, next_id, uploads_dir, response, fn, input, output, handlers, files>>

svc_vars == <<weldment_data, bom_data, analysis_results, analysis_collection,
              db_up, next_id, uploads_dir, response>>

lib_vars == <<fn, input, output>>

upload_vars == <<handlers, files>>

----------------------------------------------------------------------------
(* Bounds                                                                  *)

\* ids generate_file_id() may hand out in one run of the service
MaxIds == 2
\* largest quantity of a component row in the library checks
MaxQty == 2
\* longest BOM table (rows) in the library checks
MaxRows == 3

\* the length of a column name, the number of clusters in a cluster list and
\* the number of assemblies, for the helper functions
MaxNameLen == 4

MaxClusters == 3

MaxTotal == 6

\* the number of upload requests handled at the same time
MaxHandlers == 2
\* assemblies in a list given to find_assembly_clusters
MaxAssemblies == 3
\* columns of a BOM table with any header
MaxColumns == 2
\* rows of a table given to the clustering (15 rows and more reach the cap of
\* 5 on the default cluster count)
MaxSamples == 16

\* fixed-point unit: a float x is the integer x * Scale (6 decimals)
Scale == 1000000

----------------------------------------------------------------------------
(* Generic helpers                                                         *)

Max2(a, b) == IF a >= b THEN a ELSE b

Min2(a, b) == IF a <= b THEN a ELSE b

\* nearest integer to n / d, ties to even (Python's round); n >= 0, d > 0
RoundDiv(n, d) ==
    LET q == n \div d
        r == n % d
    IN  IF 2 * r < d THEN q
        ELSE IF 2 * r > d THEN q + 1
        ELSE IF q % 2 = 0 THEN q ELSE q + 1

RECURSIVE SumSet(_, _)
\* sum of f[x] over the finite set S
SumSet(f, S) ==
    IF S = {} THEN 0
    ELSE LET x == CHOOSE y \in S : TRUE
         IN  f[x] + SumSet(f, S \ {x})

RECURSIVE UniqueSeq(_)
\* pandas Series.unique(): the distinct values in order of first appearance
UniqueSeq(s) ==
    IF s = <<>> THEN <<>>
    ELSE LET init == UniqueSeq(SubSeq(s, 1, Len(s) - 1))
             last == s[Len(s)]
         IN  IF \E i \in 1..Len(init) : init[i] = last THEN init
             ELSE Append(init, last)

Range(s) == {s[i] : i \in 1..Len(s)}

\* the same sequence written out as a tuple, each element computed once
Tuple(s) == SubSeq(s, 1, Len(s))

\* a missing numeric cell (pandas NaN): equal to no number, above none
NaN == -1

\* fillna(0), and `x if not pd.isna(x) else 0.0`
FillNa(v) == IF v = NaN THEN 0 ELSE v

----------------------------------------------------------------------------
(* Strings                                                                 *)

IsSpace(c) == c = " "

RECURSIVE LStrip(_)
LStrip(s) == IF s # <<>> /\ IsSpace(s[1]) THEN LStrip(Tail(s)) ELSE s

RECURSIVE RStrip(_)
RStrip(s) ==
    IF s # <<>> /\ IsSpace(s[Len(s)]) THEN RStrip(SubSeq(s, 1, Len(s) - 1))
    ELSE s

\* str.strip()
Strip(s) == RStrip(LStrip(s))

\* Python's `kw in s` on strings
Contains(s, kw) ==
    \E i \in 0..(Len(s) - Len(kw)) : SubSeq(s, i + 1, i + Len(kw)) = kw

\* str(n) for a small non-negative integer
Digit(n) == CASE n = 0 -> "0" [] n = 1 -> "1" [] n = 2 -> "2" [] n = 3 -> "3"
              [] n = 4 -> "4" [] n = 5 -> "5" [] n = 6 -> "6" [] n = 7 -> "7"
              [] n = 8 -> "8" [] n = 9 -> "9"

RECURSIVE IntToStr(_)
IntToStr(n) == IF n < 10 THEN <<Digit(n)>>
               ELSE Append(IntToStr(n \div 10), Digit(n % 10))

\* f"ASSY_{idx}"
SyntheticAssy(idx) == <<"A", "S", "S", "Y", "_">> \o IntToStr(idx)

\* Python's None where a string may stand
NoneStr == <<"<None>">>

----------------------------------------------------------------------------
(* Column names and keywords, as strings                                   *)
s_component == <<"c", "o", "m", "p", "o", "n", "e", "n", "t">>
s_part == <<"p", "a", "r", "t">>
s_lev == <<"l", "e", "v">>
s_level == <<"l", "e", "v", "e", "l">>
s_quantity == <<"q", "u", "a", "n", "t", "i", "t", "y">>
s_qty == <<"q", "t", "y">>
s_assembly_id == <<"a", "s", "s", "e", "m", "b", "l", "y", "_", "i", "d">>
s_assy == <<"a", "s", "s", "y">>
s_is_assembly == <<"i", "s", "_", "a", "s", "s", "e", "m", "b", "l", "y">>
s_default_assembly == <<"d", "e", "f", "a", "u", "l", "t", "_", "a", "s", "s", "e", "m", "b", "l", "y">>
s_unknown == <<"u", "n", "k", "n", "o", "w", "n">>
s_assy_pn == <<"a", "s", "s", "y", "_", "p", "n">>
s_cluster == <<"c", "l", "u", "s", "t", "e", "r">>
s_PC1 == <<"P", "C", "1">>
s_PC2 == <<"P", "C", "2">>

k_assy == <<"a", "s", "s", "y">>
k_pn == <<"p", "n">>
k_total == <<"t", "o", "t", "a", "l">>
k_height == <<"h", "e", "i", "g", "h", "t">>
k_packed == <<"p", "a", "c", "k", "e", "d">>
k_tower == <<"t", "o", "w", "e", "r">>
k_outer == <<"o", "u", "t", "e", "r">>
k_inner == <<"i", "n", "n", "e", "r">>
k_dia == <<"d", "i", "a">>
k_upper == <<"u", "p", "p", "e", "r">>
k_lower == <<"l", "o", "w", "e", "r">>
k_flange == <<"f", "l", "a", "n", "g", "e">>
k_spray == <<"s", "p", "r", "a", "y">>
k_nozzle == <<"n", "o", "z", "z", "l", "e">>
k_center == <<"c", "e", "n", "t", "e", "r">>
k_distance == <<"d", "i", "s", "t", "a", "n", "c", "e">>
k_id == <<"i", "d">>
k_support == <<"s", "u", "p", "p", "o", "r", "t">>
k_ring == <<"r", "i", "n", "g">>

UpperCase == <<"A", "B", "C", "D", "E", "F", "G", "H", "I", "J", "K", "L", "M",
               "N", "O", "P", "Q", "R", "S", "T", "U", "V", "W", "X", "Y", "Z">>

LowerCase == <<"a", "b", "c", "d", "e", "f", "g", "h", "i", "j", "k", "l", "m",
               "n", "o", "p", "q", "r", "s", "t", "u", "v", "w", "x", "y", "z">>

Digits == {"0", "1", "2", "3", "4", "5", "6", "7", "8", "9"}

\* the lower-case letter of each upper-case one
LowerOf == [c \in Range(UpperCase) |->
               LowerCase[CHOOSE i \in 1..Len(UpperCase) : UpperCase[i] = c]]

\* str.lower() on one character
Lower(c) == IF c \in DOMAIN LowerOf THEN LowerOf[c] ELSE c

AlnumChars == Range(UpperCase) \cup Range(LowerCase) \cup Digits

\* [a-zA-Z0-9]
IsAlnum(c) == c \in AlnumChars

RECURSIVE CollapseUnderscores(_)
\* re.sub(r'_+', '_', s), by halves: a run of underscores that spans the cut
\* keeps the left half's one
CollapseUnderscores(s) ==
    IF Len(s) < 2 THEN s
    ELSE LET h == Len(s) \div 2
             l == CollapseUnderscores(SubSeq(s, 1, h))
             r == CollapseUnderscores(SubSeq(s, h + 1, Len(s)))
         IN  IF l[Len(l)] = "_" /\ r[1] = "_" THEN l \o Tail(r) ELSE l \o r

\* s.strip('_')
StripUnderscores(s) ==
    LET inner == {i \in 1..Len(s) : s[i] # "_"}
    IN  IF inner = {} THEN <<>>
        ELSE SubSeq(s, CHOOSE i \in inner : \A j \in inner : i <= j,
                       CHOOSE i \in inner : \A j \in inner : j <= i)

\* the cleaning without the final strip('_')
clean_column_name_unstripped(column_name) ==
    IF column_name = NoneStr THEN s_unknown
    ELSE LET lowered  == [i \in 1..Len(column_name) |-> Lower(column_name[i])]
             replaced == [i \in 1..Len(lowered) |->
                             IF IsAlnum(lowered[i]) THEN lowered[i] ELSE "_"]
         IN  CollapseUnderscores(replaced)
\* main.py clean_column_name
clean_column_name(column_name) ==
    IF column_name = NoneStr THEN s_unknown
    ELSE LET lowered  == [i \in 1..Len(column_name) |-> Lower(column_name[i])]
             replaced == [i \in 1..Len(lowered) |->
                             IF IsAlnum(lowered[i]) THEN lowered[i] ELSE "_"]
         IN  StripUnderscores(CollapseUnderscores(replaced))

\* utils.py clean_column_name: no test for None, so str(None) is cleaned
utils_clean_column_name(column_name) ==
    LET text     == IF column_name = NoneStr THEN <<"N", "o", "n", "e">> ELSE column_name
        lowered  == [i \in 1..Len(text) |-> Lower(text[i])]
        replaced == [i \in 1..Len(lowered) |->
                        IF IsAlnum(lowered[i]) THEN lowered[i] ELSE "_"]
    IN  StripUnderscores(CollapseUnderscores(replaced))
\* `name in df.columns`
HasColumn(columns, name) == \E i \in 1..Len(columns) : columns[i] = name

\* df[name] = ...: a new column is appended, an old one
\* is overwritten in place
SetColumn(columns, name) ==
    IF HasColumn(columns, name) THEN columns ELSE Append(columns, name)

\* df.rename(columns={old: new})
RenameColumn(columns, old, new) ==
    [i \in 1..Len(columns) |-> IF columns[i] = old THEN new ELSE columns[i]]

\* file.filename.endswith(('.xlsx', '.xls', '.csv'))
SupportedExtension(filename) == filename.ext \in {".xlsx", ".xls", ".csv"}

----------------------------------------------------------------------------
(* main.py: the BOM analysis the web service runs                          *)

\* main.py preprocess_bom_file, the loop over the rows: the assembly_id of
\* each row, given the rows' pandas index labels idx
RECURSIVE main_assembly_ids(_, _)
main_assembly_ids(rows, idx) ==
    IF rows = <<>> THEN [ids |-> <<>>, current |-> NoneStr]
    ELSE LET n    == Len(rows)
             prev == main_assembly_ids(SubSeq(rows, 1, n - 1), SubSeq(idx, 1, n - 1))
             row  == rows[n]
             cur  == IF row.lev = 0 THEN row.component
                     ELSE IF prev.current = NoneStr THEN SyntheticAssy(idx[n])
                     ELSE prev.current
         IN  [ids |-> Append(prev.ids, cur), current |-> cur]

\* main.py line 56: bom_df.columns.str.lower().str.strip()
main_lower_strip(columns) ==
    [i \in 1..Len(columns) |->
        Strip([k \in 1..Len(columns[i]) |-> Lower(columns[i][k])])]

\* main.py preprocess_bom_file: the table with assembly_id and is_assembly set
\* (the caller's table is changed in place)
main_preprocess_bom_file(df) ==
    LET ids == main_assembly_ids(df.rows, df.index).ids
    IN  [df EXCEPT
           !.columns = SetColumn(SetColumn(main_lower_strip(df.columns),
                                           s_assembly_id), s_is_assembly),
           !.rows = [i \in 1..Len(df.rows) |->
                        [component   |-> df.rows[i].component,
                         lev         |-> df.rows[i].lev,
                         quantity    |-> df.rows[i].quantity,
                         assembly_id |-> ids[i],
                         is_assembly |-> df.rows[i].lev = 0]]]

\* main.py analyze_bom_data, lines 282-295: the component -> summed quantity
\* dict of one assembly
main_comp_qty(component_rows, assembly) ==
    LET mine  == SelectSeq(component_rows, LAMBDA r : r.assembly_id = assembly)
        names == {Strip(mine[i].component) : i \in 1..Len(mine)}
    IN  [c \in names |->
            LET at == {i \in 1..Len(mine) : Strip(mine[i].component) = c}
            \* lines 289-293: a missing quantity counts 0.0
            IN  SumSet([i \in at |-> FillNa(mine[i].quantity)], at)]

Qty(comp_dict, c) == IF c \in DOMAIN comp_dict THEN comp_dict[c] ELSE 0

\* main.py compute_bom_similarity, lines 111-131: the similarity of two
\* component dicts as the exact fraction num / den percent
main_similarity(d1, d2) ==
    IF DOMAIN d1 = {} /\ DOMAIN d2 = {} THEN [num |-> 100, den |-> 1]
    ELSE IF DOMAIN d1 = {} \/ DOMAIN d2 = {} THEN [num |-> 0, den |-> 1]
    ELSE LET all   == DOMAIN d1 \cup DOMAIN d2
             inter == SumSet([c \in all |-> Min2(Qty(d1, c), Qty(d2, c))], all)
             union == SumSet([c \in all |-> Max2(Qty(d1, c), Qty(d2, c))], all)
         IN  IF union = 0 THEN [num |-> 0, den |-> 1]
             ELSE [num |-> inter * 100, den |-> union]

\* main.py line 136: similarity > threshold (threshold in percent * Scale)
main_passes_threshold(sim, threshold) ==
    sim.num * Scale > threshold * sim.den

\* main.py lines 137-170: the entry of one similar pair
main_pair_entry(assy1, assy2, d1, d2) ==
    LET all    == DOMAIN d1 \cup DOMAIN d2
        sim    == main_similarity(d1, d2)
        common == {c \in all : Min2(Qty(d1, c), Qty(d2, c)) > 0}
        u1     == {c \in DOMAIN d1 : c \notin DOMAIN d2}
        u2     == {c \in DOMAIN d2 : c \notin DOMAIN d1}
    IN  [bom_a |-> assy1,
         bom_b |-> assy2,
         \* round(similarity / 100, 4)
         similarity_score |-> RoundDiv(sim.num * 10000, sim.den * 100) * (Scale \div 10000),
         common_components |->
             {[component |-> c, qty_a |-> Qty(d1, c), qty_b |-> Qty(d2, c),
               common_qty |-> Min2(Qty(d1, c), Qty(d2, c))] : c \in common},
         unique_components_a |-> u1,
         unique_components_b |-> u2,
         common_count |-> Cardinality(common),
         common_quantity_total |->
             SumSet([c \in common |-> Min2(Qty(d1, c), Qty(d2, c))], common),
         unique_count_a |-> Cardinality(u1),
         unique_count_b |-> Cardinality(u2)]

\* the index pairs (i, j), i < j, in the order of the two nested loops
RECURSIVE PairOrder(_, _, _)
PairOrder(n, i, j) ==
    IF i > n THEN <<>>
    ELSE IF j > n THEN PairOrder(n, i + 1, i + 2)
    ELSE <<(<<i, j>>)>> \o PairOrder(n, i, j + 1)

\* main.py create_empty_bom_results
create_empty_bom_results ==
    [similarity_matrix |-> <<>>,
     similar_pairs |-> <<>>,
     replacement_suggestions |-> <<>>,
     bom_statistics |->
         [total_components |-> 0, unique_components |-> 0,
          total_assemblies |-> 0, total_clusters |-> 0,
          similar_pairs_count |-> 0, reduction_potential |-> 0],
     clusters |-> <<>>]

\* main.py compute_bom_similarity: assemblies is the dict's key order
main_compute_bom_similarity(assemblies, assembly_components, threshold) ==
    IF Len(assemblies) < 2 THEN create_empty_bom_results
    ELSE
      LET n == Len(assemblies)
          D(i) == assembly_components[assemblies[i]]
          sim(i, j) == main_similarity(D(i), D(j))
          hits == SelectSeq(PairOrder(n, 1, 2),
                            LAMBDA p : main_passes_threshold(sim(p[1], p[2]), threshold))
      IN  [similarity_matrix |->
               [a \in Range(assemblies) |-> [b \in Range(assemblies) |->
                   LET s == main_similarity(assembly_components[a], assembly_components[b])
                   \* round(similarity, 2)
                   IN  RoundDiv(s.num * 100, s.den) * (Scale \div 100)]],
           similar_pairs |->
               [k \in 1..Len(hits) |->
                   main_pair_entry(assemblies[hits[k][1]], assemblies[hits[k][2]],
                                   D(hits[k][1]), D(hits[k][2]))]]

\* main.py generate_replacement_suggestions: one suggestion for each of the
\* first five pairs
main_generate_replacement_suggestions(similar_pairs) ==
    [k \in 1..Min2(5, Len(similar_pairs)) |->
        LET pair == similar_pairs[k]
        IN  [type |-> "bom_consolidation",
             bom_a |-> pair.bom_a,
             bom_b |-> pair.bom_b,
             similarity_score |-> pair.similarity_score,
             confidence |-> pair.similarity_score,
             potential_savings |-> pair.common_quantity_total,
             details |-> [common_components |-> pair.common_count,
                          common_quantity_total |-> pair.common_quantity_total,
                          unique_to_a |-> pair.unique_count_a,
                          unique_to_b |-> pair.unique_count_b]]]

\* similarity_matrix.get(a, {}).get(b, 0)
MatrixGet(m, a, b) ==
    IF a \in DOMAIN m THEN (IF b \in DOMAIN m[a] THEN m[a][b] ELSE 0) ELSE 0

\* the inner loop of find_assembly_clusters: the members the seed absorbs
RECURSIVE AbsorbInto(_, _, _, _, _)
AbsorbInto(seed, others, used, m, limit) ==
    IF others = <<>> THEN [cluster |-> <<>>, used |-> used]
    ELSE LET o == Head(others)
         IN  IF o \notin used /\ MatrixGet(m, seed, o) > limit
             THEN LET rest == AbsorbInto(seed, Tail(others), used \cup {o}, m, limit)
                  IN  [cluster |-> <<o>> \o rest.cluster, used |-> rest.used]
             ELSE AbsorbInto(seed, Tail(others), used, m, limit)

RECURSIVE ClustersFrom(_, _, _, _, _)
ClustersFrom(todo, assemblies, used, m, limit) ==
    IF todo = <<>> THEN <<>>
    ELSE LET a == Head(todo)
         IN  IF a \in used THEN ClustersFrom(Tail(todo), assemblies, used, m, limit)
             ELSE LET got == AbsorbInto(a, assemblies, used \cup {a}, m, limit)
                  IN  <<(<<a>> \o got.cluster)>>
                      \o ClustersFrom(Tail(todo), assemblies, got.used, m, limit)

\* the clusters with every assembly taken as a seed, none marked as used
main_find_assembly_clusters_of_every_seed(assemblies, similarity_matrix) ==
    [k \in 1..Len(assemblies) |->
        ClustersFrom(<<assemblies[k]>>, assemblies, {}, similarity_matrix, 80 * Scale)[1]]
\* main.py find_assembly_clusters (similarity > 80, percent * Scale)
main_find_assembly_clusters(assemblies, similarity_matrix) ==
    ClustersFrom(assemblies, assemblies, {}, similarity_matrix, 80 * Scale)

\* the potential with every member of a cluster counted as removable
\* (len(c) in place of len(c) - 1)
calculate_reduction_potential_members(clusters, total_assemblies) ==
    IF total_assemblies = 0 THEN 0
    ELSE LET total_reduction ==
                 SumSet([k \in 1..Len(clusters) |-> Max2(0, Len(clusters[k]))],
                        1..Len(clusters))
         IN  RoundDiv(total_reduction * 100 * 10, total_assemblies) * (Scale \div 10)
\* calculate_reduction_potential: round(total_reduction / total * 100, 1)
calculate_reduction_potential(clusters, total_assemblies) ==
    IF total_assemblies = 0 THEN 0
    ELSE LET total_reduction ==
                 SumSet([k \in 1..Len(clusters) |-> Max2(0, Len(clusters[k]) - 1)],
                        1..Len(clusters))
         IN  RoundDiv(total_reduction * 100 * 10, total_assemblies) * (Scale \div 10)

\* main.py analyze_bom_data: the result, and the table it leaves behind
main_analyze_bom_data(df, threshold) ==
    LET processed    == main_preprocess_bom_file(df)
        component_df == SelectSeq(processed.rows, LAMBDA r : r.lev > 0)
        assemblies   == UniqueSeq([i \in 1..Len(component_df) |-> component_df[i].assembly_id])
        num          == Len(assemblies)
    IN  IF num < 2 THEN create_empty_bom_results
        ELSE
          LET assembly_components ==
                  [a \in Range(assemblies) |-> main_comp_qty(component_df, a)]
              similarity_results ==
                  main_compute_bom_similarity(assemblies, assembly_components, threshold)
              clusters ==
                  main_find_assembly_clusters(assemblies, similarity_results.similarity_matrix)
          IN  [similarity_matrix |-> similarity_results.similarity_matrix,
               similar_pairs |-> similarity_results.similar_pairs,
               replacement_suggestions |->
                   main_generate_replacement_suggestions(similarity_results.similar_pairs),
               bom_statistics |->
                   [total_components |-> Len(component_df),
                    unique_components |->
                        Cardinality({component_df[i].component : i \in 1..Len(component_df)}),
                    total_assemblies |-> num,
                    total_clusters |-> Len(clusters),
                    similar_pairs_count |-> Len(similarity_results.similar_pairs),
                    reduction_potential |-> calculate_reduction_potential(clusters, num)],
               clusters |-> clusters]

----------------------------------------------------------------------------
(* main.py: validation of an uploaded BOM                                  *)

\* main.py validate_bom_data, lines 424-435: the columns the loop settles on
\* (the last column that matches wins; None when none matches)
RECURSIVE main_detect_columns(_)
main_detect_columns(columns) ==
    IF columns = <<>>
    THEN [component_col |-> NoneStr, lev_col |-> NoneStr, quantity_col |-> NoneStr]
    ELSE LET n     == Len(columns)
             found == main_detect_columns(SubSeq(columns, 1, n - 1))
             col   == columns[n]
         IN  IF Contains(col, s_component) \/ Contains(col, s_part)
             THEN [found EXCEPT !.component_col = col]
             ELSE IF Contains(col, s_lev) \/ Contains(col, s_level)
             THEN [found EXCEPT !.lev_col = col]
             ELSE IF Contains(col, s_quantity) \/ Contains(col, s_qty)
             THEN [found EXCEPT !.quantity_col = col]
             ELSE found

\* how many columns carry the name
CountColumn(columns, name) == Cardinality({i \in 1..Len(columns) : columns[i] = name})

\* main.py validate_bom_data, lines 476-480: the assembly a row is put in at
\* upload: the first level-0 component whose name occurs in the row's
main_inferred_assembly(level_0_components, component) ==
    IF \E k \in 1..Len(level_0_components) : Contains(component, level_0_components[k])
    THEN level_0_components[
             CHOOSE k \in 1..Len(level_0_components) :
                 /\ Contains(component, level_0_components[k])
                 /\ \A j \in 1..(k - 1) : ~Contains(component, level_0_components[j])]
    ELSE s_default_assembly

\* main.py validate_bom_data: [ok, df]; ok = FALSE is the ValueError (or the
\* pandas error two columns of one name end in)
main_validate_bom_data(raw) ==
    LET cleaned  == [i \in 1..Len(raw.columns) |-> clean_column_name(raw.columns[i])]
        found    == main_detect_columns(cleaned)
        renamed1 == IF found.component_col # NoneStr /\ found.component_col # <<>>
                    THEN RenameColumn(cleaned, found.component_col, s_component)
                    ELSE cleaned
        renamed2 == IF found.lev_col # NoneStr /\ found.lev_col # <<>>
                    THEN RenameColumn(renamed1, found.lev_col, s_lev)
                    ELSE renamed1
        columns  == IF found.quantity_col # NoneStr /\ found.quantity_col # <<>>
                    THEN RenameColumn(renamed2, found.quantity_col, s_quantity)
                    ELSE renamed2
        kept     == {i \in 1..Len(raw.rows) : raw.rows[i].component # NoneStr}
        index    == SelectSeq([i \in 1..Len(raw.rows) |-> i - 1], LAMBDA i : (i + 1) \in kept)
        rows     == [k \in 1..Len(index) |-> raw.rows[index[k] + 1]]
        level_0  == UniqueSeq(LET heads == SelectSeq(rows, LAMBDA r : r.lev = 0)
                              IN  [k \in 1..Len(heads) |-> heads[k].component])
    IN  IF \/ ~HasColumn(columns, s_component)
           \/ ~HasColumn(columns, s_lev)
           \/ ~HasColumn(columns, s_quantity)
           \/ CountColumn(columns, s_component) > 1
           \/ CountColumn(columns, s_lev) > 1
           \/ CountColumn(columns, s_quantity) > 1
        THEN [ok |-> FALSE]
        ELSE [ok |-> TRUE,
              df |-> [columns |-> IF HasColumn(columns, s_assembly_id) THEN columns
                                  ELSE IF HasColumn(columns, s_assy)
                                  THEN RenameColumn(columns, s_assy, s_assembly_id)
                                  ELSE Append(columns, s_assembly_id),
                      index   |-> index,
                      rows    |-> [k \in 1..Len(rows) |->
                                      [component   |-> rows[k].component,
                                       lev         |-> rows[k].lev,
                                       quantity    |-> rows[k].quantity,
                                       assembly_id |->
                                           IF HasColumn(columns, s_assembly_id)
                                              \/ HasColumn(columns, s_assy)
                                           THEN rows[k].assembly_id
                                           ELSE main_inferred_assembly(level_0, rows[k].component)]]]]

----------------------------------------------------------------------------
(* The files a client uploads                                              *)

A1 == <<"A", "1">>
A2 == <<"A", "2">>
X == <<"X">>
Y == <<"Y">>

BomRow(c, l, q) == [component |-> c, lev |-> l, quantity |-> q]

\* an assembly header followed by its components X and Y (quantity 0: absent)
Assembly(name, qx, qy) ==
    <<BomRow(name, 0, 1)>>
    \o (IF qx > 0 THEN <<BomRow(X, 1, qx)>> ELSE <<>>)
    \o (IF qy > 0 THEN <<BomRow(Y, 1, qy)>> ELSE <<>>)

BomSheets ==
    { Assembly(A1, 2, 1) \o Assembly(A2, 2, 1),
      Assembly(A1, 2, 1) \o Assembly(A2, 1, 1),
      Assembly(A1, 1, 0) \o Assembly(A2, 0, 1),
      Assembly(A1, 1, 0) }

COMPONENT_raw == <<"C", "o", "m", "p", "o", "n", "e", "n", "t">>

LEV_raw == <<"L", "e", "v">>

QUANTITY_raw == <<"Q", "u", "a", "n", "t", "i", "t", "y", " ", "(", "p", "c", "s", ")">>

BomHeader == <<COMPONENT_raw, LEV_raw, QUANTITY_raw>>

BomCsv == [stem |-> "bom", ext |-> ".csv"]

BomFiles ==
    { [filename |-> BomCsv, readable |-> TRUE, columns |-> BomHeader, rows |-> r] :
          r \in BomSheets }
    \cup
    { [filename |-> [stem |-> "bom", ext |-> ".pdf"], readable |-> TRUE,
       columns |-> BomHeader, rows |-> Assembly(A1, 1, 0)],
      [filename |-> BomCsv, readable |-> FALSE, columns |-> <<>>, rows |-> <<>>],
      [filename |-> BomCsv, readable |-> TRUE,
       columns |-> <<COMPONENT_raw, LEV_raw>>, rows |-> Assembly(A1, 1, 0)] }

----------------------------------------------------------------------------
(* main.py: validation of an uploaded weldment sheet                       *)

\* main.py validate_weldment_columns, required_patterns
required_patterns ==
    << <<k_assy, k_pn>>,
       <<k_total, k_height, k_packed, k_tower>>,
       <<k_packed, k_tower, k_outer, k_dia>>,
       <<k_packed, k_tower, k_inner, k_dia>>,
       <<k_upper, k_flange, k_outer, k_dia>>,
       <<k_upper, k_flange, k_inner, k_dia>>,
       <<k_lower, k_flange, k_outer, k_dia>>,
       <<k_spray, k_nozzle, k_center, k_distance>>,
       <<k_spray, k_nozzle, k_id>>,
       <<k_support, k_ring, k_height>>,
       <<k_support, k_ring, k_id>> >>

\* matches_pattern: all(k in col for k in keywords)
matches_pattern(col, keywords) ==
    \A k \in 1..Len(keywords) : Contains(col, keywords[k])

\* main.py validate_weldment_columns
validate_weldment_columns(columns) ==
    LET cleaned_cols == [i \in 1..Len(columns) |-> clean_column_name(columns[i])]
    IN  \A p \in 1..Len(required_patterns) :
            \E i \in 1..Len(cleaned_cols) :
                matches_pattern(cleaned_cols[i], required_patterns[p])

\* main.py validate_weldment_data: [ok, df]; ok = FALSE is the ValueError.
\* A row is [assy_pn, blank]: blank rows (every cell empty) are dropped, then
\* rows without an Assy PN; every other column becomes numeric.
main_validate_weldment_data(raw) ==
    LET columns  == [i \in 1..Len(raw.columns) |-> clean_column_name(raw.columns[i])]
        nonblank == SelectSeq(raw.rows, LAMBDA r : ~r.blank)
        rows     == SelectSeq(nonblank, LAMBDA r : r.assy_pn # NoneStr)
    IN  IF ~validate_weldment_columns(columns) THEN [ok |-> FALSE]
        ELSE IF Len(nonblank) = 0 THEN [ok |-> FALSE]
        ELSE IF ~HasColumn(columns, s_assy_pn) THEN [ok |-> FALSE]
        ELSE [ok |-> TRUE,
              df |-> [columns |-> columns,
                      rows    |-> [k \in 1..Len(rows) |->
                                      [assy_pn |-> Strip(rows[k].assy_pn)]]]]

\* df.select_dtypes(include=[np.number]).columns: after validation every
\* column but assy_pn is numeric, and so are cluster, PC1 and PC2
numeric_columns(df) == SelectSeq(df.columns, LAMBDA c : c # s_assy_pn)

----------------------------------------------------------------------------
(* Weldment sheets a client uploads *)

W_col1 ==
    <<"A", "s", "s", "y", " ", "P", "N">>

W_col2 ==
    <<"T", "o", "t", "a", "l", " ", "H", "e", "i", "g", "h", "t", " ",
      "o", "f", " ", "P", "a", "c", "k", "e", "d", " ", "T", "o", "w",
      "e", "r", " ", "(", "M", "M", ")">>

W_col3 ==
    <<"P", "a", "c", "k", "e", "d", " ", "T", "o", "w", "e", "r", " ",
      "O", "u", "t", "e", "r", " ", "D", "i", "a", " ", "(", "M", "M",
      ")">>

W_col4 ==
    <<"P", "a", "c", "k", "e", "d", " ", "T", "o", "w", "e", "r", " ",
      "I", "n", "n", "e", "r", " ", "D", "i", "a", " ", "(", "M", "M",
      ")">>

W_col5 ==
    <<"U", "p", "p", "e", "r", " ", "F", "l", "a", "n", "g", "e", " ",
      "O", "u", "t", "e", "r", " ", "D", "i", "a", " ", "(", "M", "M",
      ")">>

W_col6 ==
    <<"U", "p", "p", "e", "r", " ", "F", "l", "a", "n", "g", "e", " ",
      "I", "n", "n", "e", "r", " ", "D", "i", "a", " ", "(", "M", "M",
      ")">>

W_col7 ==
    <<"L", "o", "w", "e", "r", " ", "F", "l", "a", "n", "g", "e", " ",
      "O", "u", "t", "e", "r", " ", "D", "i", "a", " ", "(", "M", "M",
      ")">>

W_col8 ==
    <<"S", "p", "r", "a", "y", " ", "N", "o", "z", "z", "l", "e", " ",
      "C", "e", "n", "t", "e", "r", " ", "D", "i", "s", "t", "a", "n",
      "c", "e">>

W_col9 ==
    <<"S", "p", "r", "a", "y", " ", "N", "o", "z", "z", "l", "e", " ",
      "I", "D">>

W_col10 ==
    <<"S", "u", "p", "p", "o", "r", "t", " ", "R", "i", "n", "g", " ",
      "H", "e", "i", "g", "h", "t", " ", "f", "r", "o", "m", " ", "B",
      "o", "t", "t", "o", "m">>

W_col11 ==
    <<"S", "u", "p", "p", "o", "r", "t", " ", "R", "i", "n", "g", " ",
      "I", "D">>

\* one column whose name holds every keyword of the ten dimension fields
W_all_in_one ==
    <<"t", "o", "t", "a", "l", " ", "h", "e", "i", "g", "h", "t", " ",
      "p", "a", "c", "k", "e", "d", " ", "t", "o", "w", "e", "r", " ",
      "o", "u", "t", "e", "r", " ", "i", "n", "n", "e", "r", " ", "d",
      "i", "a", " ", "u", "p", "p", "e", "r", " ", "l", "o", "w", "e",
      "r", " ", "f", "l", "a", "n", "g", "e", " ", "s", "p", "r", "a",
      "y", " ", "n", "o", "z", "z", "l", "e", " ", "c", "e", "n", "t",
      "e", "r", " ", "d", "i", "s", "t", "a", "n", "c", "e", " ", "i",
      "d", " ", "s", "u", "p", "p", "o", "r", "t", " ", "r", "i", "n",
      "g">>

WeldRow(pn) == [assy_pn |-> pn, blank |-> FALSE]

WeldRows == <<WeldRow(<<"W", "1">>), WeldRow(<<"W", "2">>), WeldRow(<<"W", "3">>)>>

WeldHeader ==
    <<W_col1, W_col2, W_col3, W_col4, W_col5, W_col6, W_col7, W_col8, W_col9,
      W_col10, W_col11>>

WeldCsv == [stem |-> "weld", ext |-> ".csv"]

WeldFiles ==
    { [filename |-> WeldCsv, readable |-> TRUE, columns |-> WeldHeader, rows |-> WeldRows],
      [filename |-> WeldCsv, readable |-> TRUE,
       columns |-> <<W_col1, W_all_in_one>>, rows |-> WeldRows],
      [filename |-> WeldCsv, readable |-> TRUE,
       columns |-> <<W_col1, W_col2>>, rows |-> WeldRows],
      [filename |-> [stem |-> "weld", ext |-> ".pdf"], readable |-> TRUE,
       columns |-> WeldHeader, rows |-> WeldRows],
      [filename |-> WeldCsv, readable |-> FALSE, columns |-> <<>>, rows |-> <<>>] }

----------------------------------------------------------------------------
(* The clustering library (scikit-learn, scipy), as far as the service     *)
(* depends on it: the label vectors a call may return, or that it raises   *)

ClusteringMethods == {"kmeans", "hierarchical", "dbscan"}

\* the labels that occur in a label vector
LabelsOf(labels) == {labels[i] : i \in 1..Len(labels)}

\* KMeans(n_clusters=k).fit_predict: n labels out of 0..k-1
KMeansLabels(n, k) == [1..n -> 0..(k - 1)]

\* fcluster(Z, k, criterion='maxclust') - 1: at most k flat clusters,
\* numbered 0..m-1
HierarchicalLabels(n, k) ==
    {l \in [1..n -> 0..(k - 1)] : \E m \in 1..k : LabelsOf(l) = 0..(m - 1)}

\* DBSCAN(eps=0.5, min_samples=2).fit_predict: noise is -1; a cluster has at
\* least two members; clusters are numbered from 0
DbscanLabels(n) ==
    {l \in [1..n -> -1..((n \div 2) - 1)] :
        /\ \E m \in 0..(n \div 2) : LabelsOf(l) \ {-1} = 0..(m - 1)
        /\ \A c \in LabelsOf(l) \ {-1} : Cardinality({i \in 1..n : l[i] = c}) >= 2}

\* whether the clustering call itself raises (sklearn / scipy ValueError)
ClusteringRaises(method, n, k) ==
    \/ method = "kmeans" /\ n < k
    \/ method = "hierarchical" /\ n < 2

\* the label vectors the call may return
ClusterLabelings(method, n, k) ==
    CASE method = "kmeans"       -> KMeansLabels(n, k)
      [] method = "hierarchical" -> HierarchicalLabels(n, k)
      [] method = "dbscan"       -> DbscanLabels(n)

\* PCA(n_components=2).fit_transform raises unless there are two samples and
\* two features
PcaRaises(n, n_features) == n < 2 \/ n_features < 2

\* silhouette_score raises unless 2 <= number of labels <= n_samples - 1
SilhouetteRaises(labels) ==
    LET n_labels == Cardinality(LabelsOf(labels))
    IN  n_labels > 1 /\ ~(2 <= n_labels /\ n_labels <= Len(labels) - 1)

----------------------------------------------------------------------------
(* main.py analyze_dimensional_clustering, the computation                 *)

\* lines 659-666: the cluster count; n_clusters is <<>> (None) or <<n>>
resolve_n_clusters(n_clusters, rows) ==
    IF n_clusters # <<>> THEN Max2(2, Min2(n_clusters[1], rows))
    ELSE Min2(5, Max2(2, rows \div 3))

\* lines 681-686: the stored table after the labels and the PCA coordinates
\* are written into it (pca = FALSE: PCA raised, only cluster was written)
main_write_clusters(df, labels, pca) ==
    [columns |-> IF pca
                 THEN SetColumn(SetColumn(SetColumn(df.columns, s_cluster), s_PC1), s_PC2)
                 ELSE SetColumn(df.columns, s_cluster),
     rows    |-> [i \in 1..Len(df.rows) |->
                     IF pca
                     THEN [assy_pn |-> df.rows[i].assy_pn, cluster |-> labels[i],
                           PC1 |-> "float", PC2 |-> "float"]
                     ELSE IF "PC1" \in DOMAIN df.rows[i]
                     THEN [df.rows[i] EXCEPT !.cluster = labels[i]]
                     ELSE [assy_pn |-> df.rows[i].assy_pn, cluster |-> labels[i]]]]

\* lines 691-707: one summary for each cluster id but -1, in np.unique order
RECURSIVE main_cluster_results(_, _, _)
main_cluster_results(df, labels, cluster_id) ==
    IF cluster_id >= Len(labels) THEN <<>>
    ELSE LET members == SelectSeq([i \in 1..Len(labels) |-> i],
                                  LAMBDA i : labels[i] = cluster_id)
             rest    == main_cluster_results(df, labels, cluster_id + 1)
         IN  IF members = <<>> THEN rest
             ELSE <<[cluster_id |-> cluster_id,
                     member_count |-> Len(members),
                     members |-> [m \in 1..Len(members) |-> df.rows[members[m]].assy_pn],
                     representative |-> df.rows[members[1]].assy_pn,
                     reduction_potential |->
                         RoundDiv(Max2(0, Len(members) - 1) * Scale, Len(members))]>>
                  \o rest

\* the result with metrics.n_clusters = len(unique_clusters): the noise label
\* counted as a cluster
main_clustering_result_counting_noise(df, numeric_cols, labels) ==
    LET cluster_results == main_cluster_results(df, labels, 0)
    IN  [type |-> "clustering",
         clustering |->
             [clusters |-> cluster_results,
              metrics |-> [n_clusters |-> Cardinality(LabelsOf(labels)),
                           n_samples |-> Len(df.rows),
                           silhouette_score |->
                               IF Cardinality(LabelsOf(labels)) > 1 THEN "float" ELSE "0",
                           explained_variance_ratio |-> "float"],
              visualization_data |->
                  [i \in 1..Len(df.rows) |->
                      [assy_pn |-> df.rows[i].assy_pn, cluster |-> labels[i],
                       PC1 |-> "float", PC2 |-> "float"]],
              numeric_columns |-> numeric_cols],
         bom_analysis |-> [similar_pairs |-> <<>>, replacement_suggestions |-> <<>>]]
\* lines 709-740: the analysis result
main_clustering_result(df, numeric_cols, labels) ==
    LET cluster_results == main_cluster_results(df, labels, 0)
    IN  [type |-> "clustering",
         clustering |->
             [clusters |-> cluster_results,
              metrics |-> [n_clusters |-> Len(cluster_results),
                           n_samples |-> Len(df.rows),
                           silhouette_score |->
                               IF Cardinality(LabelsOf(labels)) > 1 THEN "float" ELSE "0",
                           explained_variance_ratio |-> "float"],
              visualization_data |->
                  [i \in 1..Len(df.rows) |->
                      [assy_pn |-> df.rows[i].assy_pn, cluster |-> labels[i],
                       PC1 |-> "float", PC2 |-> "float"]],
              numeric_columns |-> numeric_cols],
         bom_analysis |-> [similar_pairs |-> <<>>, replacement_suggestions |-> <<>>]]

----------------------------------------------------------------------------
(* The web service: state and requests                                     *)

Ids == 1..MaxIds

NoBody == [none |-> TRUE]

NoRequest == [none |-> TRUE]

\* an HTTP response: the endpoint answering, its status, its body, and the
\* request it answers
Response(endpoint, status, body, request) ==
    [endpoint |-> endpoint, status |-> status, body |-> body, request |-> request]

\* raise HTTPException(status_code, detail)
HttpError(endpoint, status, detail, request) ==
    Response(endpoint, status, [detail |-> detail], request)

\* an assignment of a fresh dict, registry = {k: v}: the other entries are lost
PutAlone(registry, k, v) == [x \in {k} |-> v]
\* f @@ (k :> v) for a dict: registry[k] = v
Put(registry, k, v) == [x \in DOMAIN registry \cup {k} |-> IF x = k THEN v ELSE registry[x]]

SvcInit ==
    /\ weldment_data = <<>>
    /\ bom_data = <<>>
    /\ analysis_results = <<>>
    /\ analysis_collection = <<>>
    /\ db_up = TRUE
    /\ next_id = 0
    /\ uploads_dir = {}
    /\ response = Response("none", 0, NoBody, NoRequest)
    /\ handlers = <<>>
    /\ files = <<>>

\* the entry an upload stores (main.py lines 515-522 and 578-585)
UploadedFile(file, validated) ==
    [filename     |-> file.filename,
     data         |-> validated.rows,
     columns      |-> validated.columns,
     record_count |-> Len(validated.rows),
     dataframe    |-> validated]

\* the body of a successful upload reporting the id after the one stored
UploadBody_next_id(message, file_id, validated) ==
    [message |-> message, file_id |-> file_id + 1,
     record_count |-> Len(validated.rows), columns |-> validated.columns]
\* the body of a successful upload (lines 524-529 and 587-592)
UploadBody(message, file_id, validated) ==
    [message |-> message, file_id |-> file_id,
     record_count |-> Len(validated.rows), columns |-> validated.columns]

\* main.py line 511, validate_weldment_data(df), for each file a client may send
validated_weldments == [file \in WeldFiles |-> main_validate_weldment_data(file)]

\* main.py line 574, validate_bom_data(df), for each file a client may send
validated_boms == [file \in BomFiles |-> main_validate_bom_data(file)]

\* POST /upload/weldments/ (main.py upload_weldments)
upload_weldments(file) ==
    /\ next_id < MaxIds
    /\ LET ep     == "upload_weldments"
           result == validated_weldments[file]
           ok     == SupportedExtension(file.filename) /\ file.readable /\ result.ok
           file_id == next_id + 1
       IN  /\ weldment_data' =
                  IF ok THEN Put(weldment_data, file_id, UploadedFile(file, result.df))
                  ELSE weldment_data
           /\ next_id' = IF ok THEN file_id ELSE next_id
           \* lines 499-502 / 545-548: the file is written under its own name
           /\ uploads_dir' = IF SupportedExtension(file.filename)
                             THEN uploads_dir \cup {file.filename} ELSE uploads_dir
           /\ response' =
                  IF ~SupportedExtension(file.filename)
                  THEN HttpError(ep, 400, "Only Excel and CSV files are supported", file.filename)
                  ELSE IF ~file.readable
                  THEN HttpError(ep, 400, "parse error", file.filename)
                  ELSE IF ~result.ok
                  THEN HttpError(ep, 400, "validation error", file.filename)
                  ELSE Response(ep, 200,
                                UploadBody("File uploaded successfully", file_id, result.df),
                                file.filename)
    /\ UNCHANGED <<bom_data, analysis_results, analysis_collection, db_up>>
    /\ UNCHANGED lib_vars
    /\ UNCHANGED upload_vars

\* POST /upload/boms/ (main.py upload_boms)
upload_boms(file) ==
    /\ next_id < MaxIds
    /\ LET ep     == "upload_boms"
           result == validated_boms[file]
           ok     == SupportedExtension(file.filename) /\ file.readable /\ result.ok
           file_id == next_id + 1
       IN  /\ bom_data' =
                  IF ok THEN Put(bom_data, file_id, UploadedFile(file, result.df))
                  ELSE bom_data
           /\ next_id' = IF ok THEN file_id ELSE next_id
           \* lines 499-502 / 545-548: the file is written under its own name
           /\ uploads_dir' = IF SupportedExtension(file.filename)
                             THEN uploads_dir \cup {file.filename} ELSE uploads_dir
           /\ response' =
                  IF ~SupportedExtension(file.filename)
                  THEN HttpError(ep, 400, "Only Excel and CSV files are supported", file.filename)
                  ELSE IF ~file.readable
                  THEN HttpError(ep, 400, "parse error", file.filename)
                  ELSE IF ~result.ok
                  THEN HttpError(ep, 400, "validation error", file.filename)
                  ELSE Response(ep, 200,
                                UploadBody("BOM file uploaded successfully", file_id, result.df),
                                file.filename)
    /\ UNCHANGED <<weldment_data, analysis_results, analysis_collection, db_up>>
    /\ UNCHANGED lib_vars
    /\ UNCHANGED upload_vars

\* the listing of a registry (lines 601-609 and 614-622)
FileList(registry) ==
    {[file_id |-> fid, filename |-> registry[fid].filename,
      record_count |-> registry[fid].record_count,
      columns |-> registry[fid].columns] : fid \in DOMAIN registry}

\* GET /files/weldments/
get_weldment_files ==
    /\ response' = Response("get_weldment_files", 200, FileList(weldment_data), NoRequest)
    /\ UNCHANGED <<weldment_data, bom_data, analysis_results, analysis_collection,
                   db_up, next_id, uploads_dir>>
    /\ UNCHANGED lib_vars
    /\ UNCHANGED upload_vars

\* GET /files/boms/
get_bom_files ==
    /\ response' = Response("get_bom_files", 200, FileList(bom_data), NoRequest)
    /\ UNCHANGED <<weldment_data, bom_data, analysis_results, analysis_collection,
                   db_up, next_id, uploads_dir>>
    /\ UNCHANGED lib_vars
    /\ UNCHANGED upload_vars

\* GET /weldment-data/{file_id}
get_weldment_data(file_id) ==
    /\ response' =
           IF file_id \notin DOMAIN weldment_data
           THEN HttpError("get_weldment_data", 404, "Weldment file not found", file_id)
           ELSE Response("get_weldment_data", 200,
                         [data |-> weldment_data[file_id].data,
                          columns |-> weldment_data[file_id].columns],
                         file_id)
    /\ UNCHANGED <<weldment_data, bom_data, analysis_results, analysis_collection,
                   db_up, next_id, uploads_dir>>
    /\ UNCHANGED lib_vars
    /\ UNCHANGED upload_vars

----------------------------------------------------------------------------
(* The web service: analysis and retrieval                                 *)

\* the document save_analysis_to_mongodb writes (lines 860-867; the date and
\* created_at fields are the wall clock's and are left out)
AnalysisDocument(analysis_id, analysis_type, result) ==
    [id |-> analysis_id, type |-> analysis_type, status |-> "completed", raw |-> result]

\* analysis_collection.replace_one({"id": id}, document, upsert=True)
ReplaceOne(collection, document) ==
    IF \E i \in 1..Len(collection) : collection[i].id = document.id
    THEN [i \in 1..Len(collection) |->
             IF collection[i].id = document.id THEN document ELSE collection[i]]
    ELSE Append(collection, document)

\* a save with no try/except around replace_one: the exception escapes
save_analysis_unguarded(analysis_id, analysis_type, result) ==
    IF db_up
    THEN [collection |-> ReplaceOne(analysis_collection,
                                    AnalysisDocument(analysis_id, analysis_type, result)),
          raised |-> FALSE]
    ELSE [collection |-> analysis_collection, raised |-> TRUE]

\* main.py save_analysis_to_mongodb: the collection afterwards, and whether
\* an exception escapes to the caller; with the server unreachable
\* replace_one raises and the except clause swallows it
save_analysis_to_mongodb(analysis_id, analysis_type, result) ==
    IF db_up
    THEN [collection |-> ReplaceOne(analysis_collection,
                                    AnalysisDocument(analysis_id, analysis_type, result)),
          raised |-> FALSE]
    ELSE [collection |-> analysis_collection, raised |-> FALSE]

\* the body both analysis endpoints return (lines 746-750 and 812-816)
AnalysisBody(analysis_id, result) ==
    [analysis_id |-> analysis_id,
     clustering_result |-> result.clustering,
     bom_analysis_result |-> result.bom_analysis]

ClusteringRequests ==
    [weldment_file_id : Ids,
     clustering_method : ClusteringMethods \cup {"spectral"},
     n_clusters : {<<>>, <<1>>}]

\* what the handler of POST /analyze/dimensional-clustering/ does up to the
\* clustering call: the step it stops at, or "cluster" with the counts
main_clustering_plan(request) ==
    IF request.weldment_file_id \notin DOMAIN weldment_data
    THEN [step |-> "not_found"]
    ELSE LET df           == weldment_data[request.weldment_file_id].dataframe
             numeric_cols == numeric_columns(df)
             k            == resolve_n_clusters(request.n_clusters, Len(df.rows))
         IN  IF Len(numeric_cols) < 2 THEN [step |-> "too_few_columns"]
             ELSE IF request.clustering_method \notin ClusteringMethods
             THEN [step |-> "unsupported"]
             ELSE IF ClusteringRaises(request.clustering_method, Len(df.rows), k)
             THEN [step |-> "library_error"]
             ELSE [step |-> "cluster", df |-> df, numeric_cols |-> numeric_cols, k |-> k]

\* the label vectors the request may see (one dummy when none is computed)
PossibleLabels(request) ==
    LET plan == main_clustering_plan(request)
    IN  IF plan.step = "cluster"
        THEN ClusterLabelings(request.clustering_method, Len(plan.df.rows), plan.k)
        ELSE {<<>>}

\* the status the except clause of both analysis endpoints answers with
\* (lines 752-754 and 818-822): every exception, HTTPException included
AnalysisFailureStatus(raised_status) == 500

\* POST /analyze/dimensional-clustering/ (main.py analyze_dimensional_clustering)
analyze_dimensional_clustering(request, labels) ==
    /\ next_id < MaxIds
    /\ LET ep   == "analyze_dimensional_clustering"
           plan == main_clustering_plan(request)
           fid  == request.weldment_file_id
           pca_raises == PcaRaises(Len(plan.df.rows), Len(plan.numeric_cols))
           done == plan.step = "cluster" /\ ~pca_raises /\ ~SilhouetteRaises(labels)
           analysis_id == next_id + 1
           result == main_clustering_result(plan.df, plan.numeric_cols, labels)
           saved  == save_analysis_to_mongodb(analysis_id, "Dimensional Clustering", result)
       IN  /\ weldment_data' =
                  IF plan.step = "cluster"
                  THEN [weldment_data EXCEPT ![fid].dataframe =
                           main_write_clusters(plan.df, labels, ~pca_raises)]
                  ELSE weldment_data
           /\ analysis_results' =
                  IF done THEN Put(analysis_results, analysis_id, result)
                  ELSE analysis_results
           /\ analysis_collection' =
                  IF done THEN saved.collection ELSE analysis_collection
           \* line 719: the id is drawn before silhouette_score is computed
           /\ next_id' = IF plan.step = "cluster" /\ ~pca_raises
                         THEN analysis_id ELSE next_id
           /\ response' =
                  CASE plan.step = "not_found" ->
                         HttpError(ep, AnalysisFailureStatus(404),
                                   "Weldment file not found", request)
                    [] plan.step = "too_few_columns" ->
                         HttpError(ep, AnalysisFailureStatus(400),
                                   "Not enough numeric columns for clustering", request)
                    [] plan.step = "unsupported" ->
                         HttpError(ep, AnalysisFailureStatus(500),
                                   "Unsupported clustering method", request)
                    [] plan.step = "library_error" ->
                         HttpError(ep, AnalysisFailureStatus(500), "library error", request)
                    [] plan.step = "cluster" /\ ~done ->
                         HttpError(ep, AnalysisFailureStatus(500), "library error", request)
                    [] done /\ saved.raised ->
                         HttpError(ep, AnalysisFailureStatus(500), "database error", request)
                    [] OTHER -> Response(ep, 200, AnalysisBody(analysis_id, result), request)
    /\ UNCHANGED <<bom_data, db_up, uploads_dir>>
    /\ UNCHANGED lib_vars
    /\ UNCHANGED upload_vars
\* 0.5, the default 0.7, 1.0, and 2 (a threshold given in percent)
BomThresholds == {Scale \div 2, (7 * Scale) \div 10, Scale, 2 * Scale}

BomRequests == [bom_file_id : Ids, threshold : BomThresholds]

\* main.py line 776: the threshold analyze_bom_data is called with
threshold_percent(threshold) == threshold * 100

\* main.py lines 783-801: the result analyze_bom_similarity stores
main_bom_result(df, analysis_results_local) ==
    [type |-> "bom_analysis",
     clustering |->
         [clusters |-> analysis_results_local.clusters,
          metrics |-> [n_clusters |-> Len(analysis_results_local.clusters),
                       n_samples |-> Len(df.rows),
                       silhouette_score |-> "0"],
          visualization_data |-> <<>>,
          numeric_columns |-> <<>>],
     bom_analysis |->
         [similarity_matrix |-> analysis_results_local.similarity_matrix,
          similar_pairs |-> analysis_results_local.similar_pairs,
          replacement_suggestions |-> analysis_results_local.replacement_suggestions,
          bom_statistics |-> analysis_results_local.bom_statistics]]

\* POST /analyze/bom-similarity/ (main.py analyze_bom_similarity)
analyze_bom_similarity(request) ==
    /\ next_id < MaxIds
    /\ LET ep    == "analyze_bom_similarity"
           fid   == request.bom_file_id
           found == fid \in DOMAIN bom_data
           df    == bom_data[fid].dataframe
           analysis_results_local ==
               main_analyze_bom_data(df, threshold_percent(request.threshold))
           analysis_id == next_id + 1
           result == main_bom_result(df, analysis_results_local)
           saved  == save_analysis_to_mongodb(analysis_id, "BOM Similarity Analysis", result)
       IN  \* preprocess_bom_file works on the stored frame itself
           /\ bom_data' = IF found
                          THEN [bom_data EXCEPT ![fid].dataframe = main_preprocess_bom_file(df)]
                          ELSE bom_data
           /\ analysis_results' =
                  IF found THEN Put(analysis_results, analysis_id, result)
                  ELSE analysis_results
           /\ analysis_collection' =
                  IF found THEN saved.collection ELSE analysis_collection
           /\ next_id' = IF found THEN analysis_id ELSE next_id
           /\ response' =
                  IF ~found
                  THEN HttpError(ep, AnalysisFailureStatus(404), "BOM file not found", request)
                  ELSE IF saved.raised
                  THEN HttpError(ep, AnalysisFailureStatus(500), "database error", request)
                  ELSE Response(ep, 200, AnalysisBody(analysis_id, result), request)
    /\ UNCHANGED <<weldment_data, db_up, uploads_dir>>
    /\ UNCHANGED lib_vars
    /\ UNCHANGED upload_vars

\* analysis_collection.find_one({"id": analysis_id}): the document, or <<>>
find_one(collection, analysis_id) ==
    SelectSeq(collection, LAMBDA d : d.id = analysis_id)

\* GET /analysis/{analysis_id} (main.py get_analysis); with the server
\* unreachable find_one raises and the framework answers 500
get_analysis(analysis_id) ==
    /\ LET ep    == "get_analysis"
           analysis == find_one(analysis_collection, analysis_id)
       IN  response' =
               IF ~db_up
               THEN HttpError(ep, 500, "Internal Server Error", analysis_id)
               ELSE IF analysis = <<>>
               THEN HttpError(ep, 404, "Analysis not found", analysis_id)
               ELSE Response(ep, 200, analysis[1], analysis_id)
    /\ UNCHANGED <<weldment_data, bom_data, analysis_results, analysis_collection,
                   db_up, next_id, uploads_dir>>
    /\ UNCHANGED lib_vars
    /\ UNCHANGED upload_vars

\* GET /recent-analyses (main.py recent_analyses): newest document first
recent_analyses ==
    /\ LET ep == "recent_analyses"
           n  == Len(analysis_collection)
       IN  response' =
               IF ~db_up
               THEN HttpError(ep, 500, "Internal Server Error", NoRequest)
               ELSE Response(ep, 200,
                             [i \in 1..n |-> analysis_collection[n + 1 - i]], NoRequest)
    /\ UNCHANGED <<weldment_data, bom_data, analysis_results, analysis_collection,
                   db_up, next_id, uploads_dir>>
    /\ UNCHANGED lib_vars
    /\ UNCHANGED upload_vars

\* the MongoDB server of db.py becomes unreachable
DbDown ==
    /\ db_up
    /\ db_up' = FALSE
    /\ UNCHANGED <<weldment_data, bom_data, analysis_results, analysis_collection,
                   next_id, uploads_dir, response>>
    /\ UNCHANGED lib_vars
    /\ UNCHANGED upload_vars

\* ... and reachable again; the stored documents are still there
DbUp ==
    /\ ~db_up
    /\ db_up' = TRUE
    /\ UNCHANGED <<weldment_data, bom_data, analysis_results, analysis_collection,
                   next_id, uploads_dir, response>>
    /\ UNCHANGED lib_vars
    /\ UNCHANGED upload_vars

Idle == fn = "idle" /\ input = <<>> /\ output = <<>>

Init == SvcInit /\ Idle

Next ==
    \/ \E file \in WeldFiles : upload_weldments(file)
    \/ \E file \in BomFiles : upload_boms(file)
    \/ get_weldment_files
    \/ get_bom_files
    \/ \E file_id \in Ids : get_weldment_data(file_id)
    \/ \E request \in ClusteringRequests : \E labels \in PossibleLabels(request) :
           analyze_dimensional_clustering(request, labels)
    \/ \E request \in BomRequests : analyze_bom_similarity(request)
    \/ \E analysis_id \in Ids : get_analysis(analysis_id)
    \/ recent_analyses
    \/ DbDown
    \/ DbUp

Spec == Init /\ [][Next]_vars
----------------------------------------------------------------------------
(* Properties of the web service                                           *)

AnalysisEndpoints == {"analyze_dimensional_clustering", "analyze_bom_similarity"}

\* the response is the answer to GET /analysis/{id}
AnsweredGet == response.endpoint = "get_analysis"

\* the analysis id is in the cache and not in the database
CachedOnly(analysis_id) ==
    /\ analysis_id \in DOMAIN analysis_results
    /\ \A i \in 1..Len(analysis_collection) : analysis_collection[i].id # analysis_id

\* the analysis id is in neither the cache nor the database
WhollyUnknown(analysis_id) ==
    /\ analysis_id \notin DOMAIN analysis_results
    /\ \A i \in 1..Len(analysis_collection) : analysis_collection[i].id # analysis_id

\* C1: GET /analysis/{id} for an id whose result is only in the in-memory
\* cache (the database was unreachable when the analysis completed) returns
\* that result, and for an id in neither the database nor the cache it
\* answers 404.
C1_GetAnalysisFallsBackToCache ==
    AnsweredGet =>
        /\ CachedOnly(response.request) =>
               /\ response.status = 200
               /\ response.body.raw = analysis_results[response.request]
        /\ WhollyUnknown(response.request) => response.status = 404

\* the step answers an analysis request for a file id that is not in the
\* registry of its endpoint
UnknownFileRequest ==
    /\ response' # response
    /\ \/ /\ response'.endpoint = "analyze_dimensional_clustering"
          /\ response'.request.weldment_file_id \notin DOMAIN weldment_data
       \/ /\ response'.endpoint = "analyze_bom_similarity"
          /\ response'.request.bom_file_id \notin DOMAIN bom_data

NothingStored ==
    /\ analysis_results' = analysis_results
    /\ analysis_collection' = analysis_collection

\* C2: both analysis endpoints answer a request whose file id is not in the
\* registry with 404, and store and persist no analysis result.
C2_UnknownFileIs404 ==
    [][UnknownFileRequest => response'.status = 404 /\ NothingStored]_vars

\* the step answers a clustering request for a stored table that has fewer
\* than two numeric columns, or names a method other than the three
InvalidClusteringRequest ==
    /\ response' # response
    /\ response'.endpoint = "analyze_dimensional_clustering"
    /\ response'.request.weldment_file_id \in DOMAIN weldment_data
    /\ \/ Len(numeric_columns(
              weldment_data[response'.request.weldment_file_id].dataframe)) < 2
       \/ response'.request.clustering_method \notin {"kmeans", "hierarchical", "dbscan"}

\* C3: clustering a stored table with fewer than two numeric columns, or
\* with an unsupported method name, is answered with a 400-class response
\* and creates no analysis result.
C3_InvalidClusteringIs400 ==
    [][InvalidClusteringRequest =>
           /\ response'.status >= 400 /\ response'.status < 500
           /\ NothingStored]_vars

\* the step computed an analysis result and stored it in the cache while the
\* database was unreachable, so that the write of the document failed
StoredWhileDown ==
    /\ ~db_up
    /\ analysis_results' # analysis_results

\* C4: when the database write of an analysis result fails, the endpoint
\* still answers 200 with the analysis id and the computed result, and the
\* result is in the in-memory cache under that id.
C4_WriteFailureSwallowed ==
    [][StoredWhileDown =>
           /\ response'.endpoint \in AnalysisEndpoints
           /\ response'.status = 200
           /\ response'.body.analysis_id \in DOMAIN analysis_results'
           /\ response'.body.analysis_id \notin DOMAIN analysis_results
           /\ response'.body.clustering_result =
                  analysis_results'[response'.body.analysis_id].clustering
           /\ response'.body.bom_analysis_result =
                  analysis_results'[response'.body.analysis_id].bom_analysis
           /\ analysis_collection' = analysis_collection]_vars

\* an analysis was answered with 200 while the database was unreachable: its
\* result is in the cache and no document of it is in the database
C4_Witness ==
    /\ response.endpoint \in AnalysisEndpoints
    /\ response.status = 200
    /\ ~db_up
    /\ CachedOnly(response.body.analysis_id)
\* the level-0 rows of an uploaded BOM, and the (component, quantity) rows
\* listed under one of them
HeaderRows(data) == {i \in 1..Len(data) : data[i].lev = 0}

ContentOf(data, h) ==
    {<<data[i].component, data[i].quantity>> :
        i \in {j \in 1..Len(data) :
                 /\ data[j].lev > 0
                 /\ h < j
                 /\ \A g \in HeaderRows(data) : g <= j => g <= h}}

\* the upload is two level-0 assemblies with distinct identifiers, identical
\* contents and positive quantities
TwoIdenticalAssemblies(data) ==
    /\ Cardinality(HeaderRows(data)) = 2
    /\ data[1].lev = 0
    /\ \A g, h \in HeaderRows(data) :
           /\ g # h => data[g].component # data[h].component
           /\ ContentOf(data, g) = ContentOf(data, h)
           /\ ContentOf(data, g) # {}
           /\ \A c \in ContentOf(data, g) : c[2] > 0

\* C5: for an uploaded BOM of two identical level-0 assemblies, POST
\* /analyze/bom-similarity/ with any threshold fraction in [0, 1] returns
\* exactly one similar pair, with similarity_score 1.0 and common_count the
\* number of distinct components.
C5_IdenticalAssembliesOnePair ==
    ( /\ response.endpoint = "analyze_bom_similarity"
      /\ response.request.bom_file_id \in DOMAIN bom_data
      /\ TwoIdenticalAssemblies(bom_data[response.request.bom_file_id].data)
      /\ response.request.threshold <= Scale )
    => /\ response.status = 200
       /\ Len(response.body.bom_analysis_result.similar_pairs) = 1
       /\ response.body.bom_analysis_result.similar_pairs[1].similarity_score = Scale
       /\ response.body.bom_analysis_result.similar_pairs[1].common_count =
              Cardinality({c[1] : c \in ContentOf(
                  bom_data[response.request.bom_file_id].data, 1)})

\* C10: the endpoint hands the analysis t * 100 for a threshold t <= 1 and t
\* itself for t > 1, so never more than 100 percent for t in [0, 100].
C10_ThresholdToPercent ==
    (response.endpoint = "analyze_bom_similarity" /\ response.status = 200) =>
        LET t == response.request.threshold
        IN  /\ t <= Scale => threshold_percent(t) = t * 100
            /\ t > Scale => threshold_percent(t) = t
            /\ t <= 100 * Scale => threshold_percent(t) <= 100 * Scale
----------------------------------------------------------------------------
(* bom_utils.py: normalisation of a BOM table                              *)
(* A table is [columns, rows]: the header names as read from the file and  *)
(* one tuple of cells for each row, cell k under column k.  The pandas     *)
(* index of row i is i - 1.                                                *)

s_price == <<"p", "r", "i", "c", "e">>
s_std_price == <<"s", "t", "d", "_", "p", "r", "i", "c", "e">>
s_stdprice == <<"s", "t", "d", "p", "r", "i", "c", "e">>
s_unit_price == <<"u", "n", "i", "t", "_", "p", "r", "i", "c", "e">>
s_unitprice == <<"u", "n", "i", "t", "p", "r", "i", "c", "e">>
s_cost == <<"c", "o", "s", "t">>
s_std == <<"s", "t", "d">>
s_crcy == <<"c", "r", "c", "y">>
s_currency == <<"c", "u", "r", "r", "e", "n", "c", "y">>
s_curr == <<"c", "u", "r", "r">>
s_part_no == <<"p", "a", "r", "t", "_", "n", "o">>
s_item == <<"i", "t", "e", "m">>
s_qtty == <<"q", "t", "t", "y">>

\* any(k in col for k in keywords)
ContainsAny(col, keywords) == \E k \in keywords : Contains(col, k)

\* next((c for c in columns if ...), None): the first column that matches
FirstColumn(columns, keywords) ==
    IF \E i \in 1..Len(columns) : ContainsAny(columns[i], keywords)
    THEN columns[CHOOSE i \in 1..Len(columns) :
                     /\ ContainsAny(columns[i], keywords)
                     /\ \A j \in 1..(i - 1) : ~ContainsAny(columns[j], keywords)]
    ELSE NoneStr

\* `if cand:` -- None and the empty name are both false
Truthy(name) == name # NoneStr /\ name # <<>>

\* lines 30-60: the header after the heuristic renames
preprocess_columns(columns) ==
    LET cleaned  == [i \in 1..Len(columns) |-> clean_column_name(columns[i])]
        price_col == FirstColumn(cleaned, {s_price, s_std_price, s_stdprice, s_unit_price,
                          s_unitprice, s_cost, s_std})
        currency_col == FirstColumn(cleaned, {s_crcy, s_currency, s_curr})
        c1 == IF Truthy(price_col) THEN RenameColumn(cleaned, price_col, s_unit_price)
              ELSE cleaned
        c2 == IF Truthy(currency_col) THEN RenameColumn(c1, currency_col, s_currency)
              ELSE c1
        comp_cand == FirstColumn(c2, {s_component, s_part, s_part_no, s_item})
        c3 == IF ~HasColumn(c2, s_component) /\ Truthy(comp_cand)
              THEN RenameColumn(c2, comp_cand, s_component) ELSE c2
        lev_cand == FirstColumn(c3, {s_lev, s_level})
        c4 == IF ~HasColumn(c3, s_lev) /\ Truthy(lev_cand)
              THEN RenameColumn(c3, lev_cand, s_lev) ELSE c3
        qty_cand == FirstColumn(c4, {s_qty, s_quantity, s_qtty})
    IN  IF ~HasColumn(c4, s_quantity) /\ Truthy(qty_cand)
        THEN RenameColumn(c4, qty_cand, s_quantity) ELSE c4

\* the cell of a row under the (first) column of that name
Cell(columns, row, name) ==
    row[CHOOSE i \in 1..Len(columns) :
            columns[i] = name /\ \A j \in 1..(i - 1) : columns[j] # name]

\* the loop with a header row that does not become the current assembly
RECURSIVE assembly_ids_keep_current(_)
assembly_ids_keep_current(rows) ==
    IF rows = <<>> THEN [ids |-> <<>>, current |-> NoneStr]
    ELSE LET n    == Len(rows)
             prev == assembly_ids_keep_current(SubSeq(rows, 1, n - 1))
             row  == rows[n]
             cur  == IF row.lev = 0 THEN prev.current
                     ELSE IF prev.current = NoneStr THEN SyntheticAssy(n - 1)
                     ELSE prev.current
         IN  [ids |-> Append(prev.ids, IF row.lev = 0 THEN Strip(row.component) ELSE cur),
              current |-> cur]

\* lines 90-102: the assembly_id of each row (rows already normalised)
RECURSIVE assembly_ids(_)
assembly_ids(rows) ==
    IF rows = <<>> THEN [ids |-> <<>>, current |-> NoneStr]
    ELSE LET n    == Len(rows)
             prev == assembly_ids(SubSeq(rows, 1, n - 1))
             row  == rows[n]
             cur  == IF row.lev = 0 THEN Strip(row.component)
                     ELSE IF prev.current = NoneStr THEN SyntheticAssy(n - 1)
                     ELSE prev.current
         IN  [ids |-> Append(prev.ids, cur), current |-> cur]

\* lines 62-105: the normalised copy of the table, given its renamed header
preprocess_rows(columns, raw_rows) ==
    LET Has(name) == HasColumn(columns, name)
        normal == [i \in 1..Len(raw_rows) |->
                     LET row == raw_rows[i]
                     IN  [lev |-> IF Has(s_lev) THEN FillNa(Cell(columns, row, s_lev)) ELSE 0,
                          component |-> IF Has(s_component)
                                        THEN Cell(columns, row, s_component)
                                        ELSE IntToStr(i - 1),
                          quantity |-> IF Has(s_quantity)
                                       THEN FillNa(Cell(columns, row, s_quantity)) ELSE 1,
                          unit_price |-> IF Has(s_unit_price)
                                         THEN FillNa(Cell(columns, row, s_unit_price)) ELSE 0,
                          currency |-> IF Has(s_currency)
                                       THEN Strip(Cell(columns, row, s_currency)) ELSE <<>>]]
        ids == assembly_ids(normal).ids
    IN  [columns |-> SetColumn(SetColumn(SetColumn(SetColumn(SetColumn(SetColumn(SetColumn(
                         columns, s_lev), s_component), s_quantity), s_unit_price),
                         s_currency), s_assembly_id), s_is_assembly),
         rows |-> [i \in 1..Len(normal) |->
                     [lev |-> normal[i].lev,
                      component |-> normal[i].component,
                      quantity |-> normal[i].quantity,
                      unit_price |-> normal[i].unit_price,
                      currency |-> normal[i].currency,
                      assembly_id |-> ids[i],
                      is_assembly |-> normal[i].lev = 0]]]

\* bom_utils.py preprocess_bom_file (the header is renamed once, then used
\* for every row)
preprocess_bom_file(bom_df) ==
    CHOOSE df \in {preprocess_rows(columns, bom_df.rows) :
                      columns \in {Tuple(preprocess_columns(bom_df.columns))}} : TRUE

----------------------------------------------------------------------------
(* The BOM tables the normalisation and the analysis are run on            *)

\* component names: two plain ones, one with a trailing blank, one blank
BomNames == {<<"A">>, <<"B">>, <<"A", " ">>, <<" ">>}

LevCells == {0, 1, NaN}

PART_NO_raw == <<"P", "a", "r", "t", " ", "N", "o">>
LEVEL_raw == <<"L", "e", "v", "e", "l">>
QTY_raw == <<"Q", "t", "y">>
STD_PRICE_raw == <<"S", "t", "d", " ", "P", "r", "i", "c", "e">>
CRCY_raw == <<"C", "r", "c", "y">>
USD_raw == <<"U", "S", "D", " ">>

\* three headers: the canonical names, names only the heuristics recognise
\* (with a price and a currency column), and a table with a level column only
H_std == <<COMPONENT_raw, LEV_raw, QUANTITY_raw>>
H_heur == <<PART_NO_raw, LEVEL_raw, QTY_raw, STD_PRICE_raw, CRCY_raw>>
H_min == <<LEV_raw>>

\* level, quantity and price of a priced row: an assembly and a component at
\* price 5, an assembly without a price, a component used twice
HeurCells == {<<0, 1, 5>>, <<1, 1, 5>>, <<0, 1, 0>>, <<1, 2, 5>>}
\* the rows a table with the given header may hold
TableRows(header) ==
    CASE header = H_std  -> {<<c, l, 1>> : c \in BomNames, l \in LevCells}
      [] header = H_heur -> {<<c, row[1], row[2], row[3], USD_raw>> :
                                 c \in {<<"A">>, <<"B">>}, row \in HeurCells}
      [] header = H_min  -> {<<l>> : l \in LevCells}

BomHeaders == {H_std, H_heur, H_min}

\* the table as main.py's functions see it: row['component'], row['lev'] and
\* row['quantity'] by the lower-cased, stripped header names
main_frame(table) ==
    LET columns == main_lower_strip(table.columns)
    IN  [columns |-> table.columns,
         index   |-> [i \in 1..Len(table.rows) |-> i - 1],
         rows    |-> [i \in 1..Len(table.rows) |->
                        [component |-> Cell(columns, table.rows[i], s_component),
                         lev       |-> Cell(columns, table.rows[i], s_lev),
                         quantity  |-> IF HasColumn(columns, s_quantity)
                                       THEN Cell(columns, table.rows[i], s_quantity)
                                       ELSE NaN]]]

\* main.py preprocess_bom_file raises KeyError at row['lev'] / row['component']
\* (line 72, 73) or at bom_df['lev'] (line 84)
main_preprocess_raises(table) ==
    LET columns == main_lower_strip(table.columns)
    IN  \/ ~HasColumn(columns, s_lev)
        \/ Len(table.rows) > 0 /\ ~HasColumn(columns, s_component)

\* a call of a library function: its name, its argument, and what it
\* returned or that it raised
Returned(value) == [raised |-> FALSE, result |-> value]
Raised == [raised |-> TRUE]

TableInit ==
    /\ SvcInit
    /\ fn = "idle"
    /\ \E header \in BomHeaders : \E k \in 0..MaxRows :
           \E rows \in [1..k -> TableRows(header)] :
               input = [columns |-> header, rows |-> rows]
    /\ output = <<>>

Call_preprocess_bom_file ==
    /\ fn = "idle"
    /\ fn' = "bom_utils.preprocess_bom_file"
    /\ output' = Returned(preprocess_bom_file(input))
    /\ UNCHANGED input
    /\ UNCHANGED svc_vars
    /\ UNCHANGED upload_vars

Call_main_preprocess_bom_file ==
    /\ fn = "idle"
    /\ fn' = "main.preprocess_bom_file"
    /\ output' = IF main_preprocess_raises(input) THEN Raised
                 ELSE Returned(main_preprocess_bom_file(main_frame(input)))
    /\ UNCHANGED input
    /\ UNCHANGED svc_vars
    /\ UNCHANGED upload_vars
----------------------------------------------------------------------------
(* bom_utils.py: similarity of assemblies                                  *)
(* A component map is a function from names to quantities; a list that the *)
(* code builds in sorted key order, one entry for a key, is a set.         *)

\* bom_utils.py _to_float_safe on a number: float(v); a missing value is 0.0
to_float_safe(v) == IF v = NaN THEN 0 ELSE v

\* comp_map.get(comp, 0.0) through _to_float_safe
QtyOf(comp_map, comp) ==
    IF comp \in DOMAIN comp_map THEN to_float_safe(comp_map[comp]) ELSE 0

\* the lists with common_qty = max(qA, qB): the larger of the two quantities
\* counted as shared
compute_quantity_aware_lists_max(comp_map_a, comp_map_b) ==
    LET keys == DOMAIN comp_map_a \cup DOMAIN comp_map_b
        qA(c) == QtyOf(comp_map_a, c)
        qB(c) == QtyOf(comp_map_b, c)
        common_qty(c) == Max2(qA(c), qB(c))
        remA(c) == Max2(0, qA(c) - common_qty(c))
        remB(c) == Max2(0, qB(c) - common_qty(c))
        common == {c \in keys : common_qty(c) > 0}
    IN  [common_components |->
             {[component |-> c, qty_a |-> qA(c), qty_b |-> qB(c),
               common_qty |-> common_qty(c)] : c \in common},
         unique_components_a |->
             {[component |-> c, qty |-> remA(c)] : c \in {k \in keys : remA(k) > 0}},
         unique_components_b |->
             {[component |-> c, qty |-> remB(c)] : c \in {k \in keys : remB(k) > 0}},
         common_quantity_total |-> SumSet([c \in common |-> common_qty(c)], common)]
\* bom_utils.py _compute_quantity_aware_lists
compute_quantity_aware_lists(comp_map_a, comp_map_b) ==
    LET keys == DOMAIN comp_map_a \cup DOMAIN comp_map_b
        qA(c) == QtyOf(comp_map_a, c)
        qB(c) == QtyOf(comp_map_b, c)
        common_qty(c) == Min2(qA(c), qB(c))
        remA(c) == Max2(0, qA(c) - common_qty(c))
        remB(c) == Max2(0, qB(c) - common_qty(c))
        common == {c \in keys : common_qty(c) > 0}
    IN  [common_components |->
             {[component |-> c, qty_a |-> qA(c), qty_b |-> qB(c),
               common_qty |-> common_qty(c)] : c \in common},
         unique_components_a |->
             {[component |-> c, qty |-> remA(c)] : c \in {k \in keys : remA(k) > 0}},
         unique_components_b |->
             {[component |-> c, qty |-> remB(c)] : c \in {k \in keys : remB(k) > 0}},
         common_quantity_total |-> SumSet([c \in common |-> common_qty(c)], common)]

\* the share of the first set's names that the second set has
jaccard_pct_of_first(set_a, set_b) ==
    IF set_a = {} /\ set_b = {} THEN [num |-> 100, den |-> 1]
    ELSE IF set_a = {} \/ set_b = {} THEN [num |-> 0, den |-> 1]
    ELSE [num |-> Cardinality(set_a \cap set_b) * 100,
          den |-> Cardinality(set_a)]

\* lines 360-368: the Jaccard percentage of two name sets, as the exact
\* fraction num / den
jaccard_pct(set_a, set_b) ==
    IF set_a = {} /\ set_b = {} THEN [num |-> 100, den |-> 1]
    ELSE IF set_a = {} \/ set_b = {} THEN [num |-> 0, den |-> 1]
    ELSE [num |-> Cardinality(set_a \cap set_b) * 100,
          den |-> Cardinality(set_a \cup set_b)]

\* line 374: jaccard_pct >= threshold (threshold in percent * Scale)
meets_threshold(pct, threshold) == pct.num * Scale >= threshold * pct.den

\* lines 376-391: the entry of one similar pair
pair_entry(assy_a, assy_b, comp_map_a, comp_map_b) ==
    LET pct   == jaccard_pct(DOMAIN comp_map_a, DOMAIN comp_map_b)
        lists == compute_quantity_aware_lists(comp_map_a, comp_map_b)
    IN  [bom_a |-> assy_a,
         bom_b |-> assy_b,
         \* round(jaccard_pct / 100.0, 6)
         similarity_score |-> RoundDiv(pct.num * Scale, pct.den * 100),
         common_components |-> lists.common_components,
         unique_components_a |-> lists.unique_components_a,
         unique_components_b |-> lists.unique_components_b,
         common_count |-> Cardinality(lists.common_components),
         common_quantity_total |-> lists.common_quantity_total,
         unique_count_a |-> Cardinality(lists.unique_components_a),
         unique_count_b |-> Cardinality(lists.unique_components_b)]

\* bom_utils.py compute_bom_similarity (the second definition, the one in
\* force); assemblies is the key order of assembly_components
compute_bom_similarity(assemblies, assembly_components, threshold) ==
    IF assemblies = <<>> THEN [similarity_matrix |-> <<>>, similar_pairs |-> <<>>]
    ELSE
      LET n == Len(assemblies)
          M(i) == assembly_components[assemblies[i]]
          hits == SelectSeq(PairOrder(n, 1, 2),
                      LAMBDA p : meets_threshold(
                          jaccard_pct(DOMAIN M(p[1]), DOMAIN M(p[2])), threshold))
      IN  [similarity_matrix |->
               [a \in Range(assemblies) |-> [b \in Range(assemblies) |->
                   LET pct == jaccard_pct(DOMAIN assembly_components[a],
                                          DOMAIN assembly_components[b])
                   \* round(jaccard_pct, 6)
                   IN  RoundDiv(pct.num * Scale, pct.den)]],
           similar_pairs |->
               [k \in 1..Len(hits) |->
                   pair_entry(assemblies[hits[k][1]], assemblies[hits[k][2]],
                              M(hits[k][1]), M(hits[k][2]))]]

\* the clusters with a similarity of 80 or more joining a cluster
find_assembly_clusters_at_least(assemblies, similarity_matrix) ==
    ClustersFrom(assemblies, assemblies, {}, similarity_matrix, 80 * Scale - 1)
\* bom_utils.py find_assembly_clusters with its default threshold 80.0
find_assembly_clusters(assemblies, similarity_matrix) ==
    ClustersFrom(assemblies, assemblies, {}, similarity_matrix, 80 * Scale)
----------------------------------------------------------------------------
(* bom_utils.py: replacement rows and suggestions                          *)

\* the characters of the model in code-point order
Alphabet ==
    <<" ", "(", ")", ".">> \o
    <<"0", "1", "2", "3", "4", "5", "6", "7", "8", "9">> \o UpperCase \o <<"_">> \o LowerCase

CharCode(c) == CHOOSE i \in 1..Len(Alphabet) : Alphabet[i] = c

\* Python's < on str
RECURSIVE StrLess(_, _)
StrLess(a, b) ==
    IF b = <<>> THEN FALSE
    ELSE IF a = <<>> THEN TRUE
    ELSE IF a[1] = b[1] THEN StrLess(Tail(a), Tail(b))
    ELSE CharCode(a[1]) < CharCode(b[1])

\* sorted(list(S)) for a set of strings
RECURSIVE SortedStrings(_)
SortedStrings(S) ==
    IF S = {} THEN <<>>
    ELSE LET least == CHOOSE x \in S : \A y \in S \ {x} : StrLess(x, y)
         IN  <<least>> \o SortedStrings(S \ {least})

\* line 485: the sort key (-DeltaPct, estimated_cost_delta), compared as tuples
KeyLeq(r1, r2) ==
    \/ r1.DeltaPct > r2.DeltaPct
    \/ r1.DeltaPct = r2.DeltaPct /\ r1.estimated_cost_delta <= r2.estimated_cost_delta

\* list.sort(key=...): stable
RECURSIVE SortRows(_)
SortRows(rows) ==
    IF rows = <<>> THEN <<>>
    ELSE LET n      == Len(rows)
             sorted == SortRows(SubSeq(rows, 1, n - 1))
             x      == rows[n]
             k      == Cardinality({i \in 1..(n - 1) : KeyLeq(sorted[i], x)})
         IN  SubSeq(sorted, 1, k) \o <<x>> \o SubSeq(sorted, k + 1, n - 1)

\* the cross product of two lists in the order of two nested loops
Pairs(xs, ys) ==
    [k \in 1..(Len(xs) * Len(ys)) |->
        <<xs[((k - 1) \div Len(ys)) + 1], ys[((k - 1) % Len(ys)) + 1]>>]

\* one replacement row with in_comp added and out_comp not taken out
replacement_row_keeping_out(bom_a, bom_b, side, own, other, unit_price_map, base, out_comp, in_comp) ==
    LET new_set == DOMAIN own \cup {in_comp}
        inter   == Cardinality(new_set \cap DOMAIN other)
        union   == Cardinality(new_set \cup DOMAIN other)
        Price(c) == IF c \in DOMAIN unit_price_map
                    THEN to_float_safe(unit_price_map[c]) ELSE 0
    IN  [bom_a |-> bom_a,
         bom_b |-> bom_b,
         Replace_In_BOM |-> IF side = "A" THEN "Replace_In_A" ELSE "Replace_In_B",
         Replace_Out |-> out_comp,
         Replace_In_With |-> in_comp,
         New_MatchPct |-> IF union > 0 THEN RoundDiv(inter * 10000, union) ELSE 10000,
         DeltaPct |-> IF union > 0 THEN RoundDiv(inter * Scale - base * union, 100 * union)
                      ELSE RoundDiv(Scale - base, 100),
         Direction |-> IF side = "A" THEN "A<-B" ELSE "B<-A",
         estimated_cost_delta |->
             QtyOf(other, in_comp) * Price(in_comp) - QtyOf(own, out_comp) * Price(out_comp)]
\* lines 428-454 and 456-482: one replacement row; own is the side that
\* gives out_comp up, other the side in_comp comes from.  Percentages are in
\* hundredths (round(..., 2)); base is the pair's similarity_score.
replacement_row(bom_a, bom_b, side, own, other, unit_price_map, base, out_comp, in_comp) ==
    LET new_set == (DOMAIN own \ {out_comp}) \cup {in_comp}
        inter   == Cardinality(new_set \cap DOMAIN other)
        union   == Cardinality(new_set \cup DOMAIN other)
        Price(c) == IF c \in DOMAIN unit_price_map
                    THEN to_float_safe(unit_price_map[c]) ELSE 0
    IN  [bom_a |-> bom_a,
         bom_b |-> bom_b,
         Replace_In_BOM |-> IF side = "A" THEN "Replace_In_A" ELSE "Replace_In_B",
         Replace_Out |-> out_comp,
         Replace_In_With |-> in_comp,
         New_MatchPct |-> IF union > 0 THEN RoundDiv(inter * 10000, union) ELSE 10000,
         DeltaPct |-> IF union > 0 THEN RoundDiv(inter * Scale - base * union, 100 * union)
                      ELSE RoundDiv(Scale - base, 100),
         Direction |-> IF side = "A" THEN "A<-B" ELSE "B<-A",
         estimated_cost_delta |->
             QtyOf(other, in_comp) * Price(in_comp) - QtyOf(own, out_comp) * Price(out_comp)]

\* bom_utils.py _compute_replacement_rows_for_pair; original_jaccard_pct is
\* never None at its one call site
compute_replacement_rows_for_pair(bom_a, bom_b, comp_map_a, comp_map_b, unit_price_map, similarity_score) ==
    LET unique_a == SortedStrings(DOMAIN comp_map_a \ DOMAIN comp_map_b)
        unique_b == SortedStrings(DOMAIN comp_map_b \ DOMAIN comp_map_a)
        ab == Pairs(unique_a, unique_b)
        ba == Pairs(unique_b, unique_a)
    IN  SortRows(
            [k \in 1..Len(ab) |->
                replacement_row(bom_a, bom_b, "A", comp_map_a, comp_map_b,
                                unit_price_map, similarity_score, ab[k][1], ab[k][2])]
            \o
            [k \in 1..Len(ba) |->
                replacement_row(bom_a, bom_b, "B", comp_map_b, comp_map_a,
                                unit_price_map, similarity_score, ba[k][1], ba[k][2])])

\* bom_utils.py generate_component_replacement_table (max_pairs = None)
RECURSIVE generate_component_replacement_table(_, _, _)
generate_component_replacement_table(assembly_components, similar_pairs, unit_price_map) ==
    IF similar_pairs = <<>> THEN <<>>
    ELSE LET pair == Head(similar_pairs)
         IN  compute_replacement_rows_for_pair(
                 pair.bom_a, pair.bom_b,
                 assembly_components[pair.bom_a], assembly_components[pair.bom_b],
                 unit_price_map, pair.similarity_score)
             \o generate_component_replacement_table(
                    assembly_components, Tail(similar_pairs), unit_price_map)

\* dict.get(key, default)
Get(dict, key, default) == IF key \in DOMAIN dict THEN dict[key] ELSE default

\* bom_utils.py generate_replacement_suggestions
generate_replacement_suggestions(similar_pairs, assembly_costs, currency_map, limit) ==
    [k \in 1..Min2(limit, Len(similar_pairs)) |->
        LET pair   == similar_pairs[k]
            cost_a == to_float_safe(Get(assembly_costs, pair.bom_a, 0))
            cost_b == to_float_safe(Get(assembly_costs, pair.bom_b, 0))
            from   == IF cost_a > cost_b THEN pair.bom_a ELSE pair.bom_b
            with   == IF cost_a > cost_b THEN pair.bom_b ELSE pair.bom_a
            savings == IF cost_a > cost_b THEN cost_a - cost_b ELSE cost_b - cost_a
            currency == IF Get(currency_map, pair.bom_a, <<>>) # <<>>
                        THEN currency_map[pair.bom_a]
                        ELSE Get(currency_map, pair.bom_b, <<>>)
        IN  [type |-> "bom_cost_consolidation",
             bom_replace_from |-> from,
             bom_replace_with |-> with,
             similarity_score |-> pair.similarity_score,
             suggestion |-> [replace |-> from, with |-> with,
                             currency |-> currency, savings |-> savings],
             confidence |-> pair.similarity_score,
             estimated_savings |-> savings,
             currency |-> currency,
             details |-> [cost_a |-> cost_a, cost_b |-> cost_b]]]
----------------------------------------------------------------------------
(* bom_utils.py analyze_bom_data                                           *)

\* lines 588-598: the result for fewer than two assemblies ({} is <<>>)
empty_analysis ==
    [similarity_matrix |-> <<>>,
     similar_pairs |-> <<>>,
     replacement_suggestions |-> <<>>,
     component_replacement_table |-> <<>>,
     bom_statistics |-> <<>>,
     clusters |-> <<>>,
     assembly_costs |-> <<>>,
     unit_price_map |-> <<>>,
     currency_map |-> <<>>]

\* lines 606-611: the first positive price seen for each component name
unit_prices(rows) ==
    LET priced == {i \in 1..Len(rows) :
                     Strip(rows[i].component) # <<>> /\ to_float_safe(rows[i].unit_price) > 0}
    IN  [c \in {Strip(rows[i].component) : i \in priced} |->
            LET first == CHOOSE i \in priced :
                            /\ Strip(rows[i].component) = c
                            /\ \A j \in priced : Strip(rows[j].component) = c => i <= j
            IN  to_float_safe(rows[first].unit_price)]

\* lines 616-627: the component -> summed quantity map of one assembly
comp_qty(component_rows, assembly) ==
    LET mine  == SelectSeq(component_rows, LAMBDA r : r.assembly_id = assembly)
        names == {Strip(mine[i].component) : i \in 1..Len(mine)}
    IN  [c \in names |->
            LET at == {i \in 1..Len(mine) : Strip(mine[i].component) = c}
            IN  SumSet([i \in at |-> to_float_safe(mine[i].quantity)], at)]

\* lines 619-645: the cost of one assembly: its header's first positive
\* price, else the sum over its component rows of qty * price
assembly_cost(component_rows, header_rows, unit_price_map, assembly) ==
    LET mine  == SelectSeq(component_rows, LAMBDA r : r.assembly_id = assembly)
        heads == SelectSeq(header_rows,
                     LAMBDA r : r.assembly_id = assembly /\ to_float_safe(r.unit_price) > 0)
        Price(r) == IF to_float_safe(r.unit_price) # 0 THEN to_float_safe(r.unit_price)
                    ELSE Get(unit_price_map, Strip(r.component), 0)
        total_by_components ==
            SumSet([i \in 1..Len(mine) |-> to_float_safe(mine[i].quantity) * Price(mine[i])],
                   1..Len(mine))
    IN  IF heads # <<>> THEN to_float_safe(heads[1].unit_price) ELSE total_by_components

\* lines 641-647: the currency of one assembly's first header row, <<>> if none
assembly_currency(header_rows, assembly) ==
    LET heads == SelectSeq(header_rows, LAMBDA r : r.assembly_id = assembly)
    IN  IF heads = <<>> THEN <<>> ELSE Strip(heads[1].currency)

\* lines 648-691: similarity, replacement rows, suggestions, clusters and
\* statistics, given the maps built from the rows
analysis_result(component_df, assemblies, unit_price_map, assembly_components, assembly_costs, currency_map, similarity_results) ==
    LET clusters ==
            find_assembly_clusters(assemblies, similarity_results.similarity_matrix)
    IN  [similarity_matrix |-> similarity_results.similarity_matrix,
         similar_pairs |-> similarity_results.similar_pairs,
         replacement_suggestions |->
             generate_replacement_suggestions(similarity_results.similar_pairs,
                                              assembly_costs, currency_map, 20),
         component_replacement_table |->
             generate_component_replacement_table(
                 assembly_components, similarity_results.similar_pairs, unit_price_map),
         bom_statistics |->
             [total_components |-> Len(component_df),
              unique_components |->
                  Cardinality({component_df[i].component : i \in 1..Len(component_df)}),
              total_assemblies |-> Len(assemblies),
              total_clusters |-> Len(clusters),
              similar_pairs_count |-> Len(similarity_results.similar_pairs),
              reduction_potential |->
                  calculate_reduction_potential(clusters, Len(assemblies))],
         clusters |-> clusters,
         assembly_costs |-> assembly_costs,
         unit_price_map |-> unit_price_map,
         currency_map |-> currency_map]

\* lines 613-650: the cost and the currency of each assembly, then the
\* similarities
analyze_priced(component_df, assembly_headers, assemblies, unit_price_map, assembly_components, threshold) ==
    analysis_result(
        component_df, assemblies, unit_price_map, assembly_components,
        [a \in Range(assemblies) |->
            assembly_cost(component_df, assembly_headers, unit_price_map, a)],
        [a \in {b \in Range(assemblies) :
                   assembly_currency(assembly_headers, b) # <<>>} |->
            assembly_currency(assembly_headers, a)],
        compute_bom_similarity(assemblies, assembly_components, threshold))

\* lines 587-627: the early return for fewer than two assemblies, else the
\* unit prices and the component maps
analyze_assemblies(processed, component_df, assembly_headers, assemblies, threshold) ==
    IF Len(assemblies) < 2 THEN empty_analysis
    ELSE analyze_priced(
             component_df, assembly_headers, assemblies,
             unit_prices(processed),
             [a \in Range(assemblies) |-> comp_qty(component_df, a)],
             threshold)

\* lines 583-586: component rows (lev > 0), header rows (lev == 0) and the
\* assembly ids in order of first appearance
analyze_rows(processed, threshold) ==
    analyze_assemblies(
        processed,
        SelectSeq(processed, LAMBDA r : r.lev > 0),
        SelectSeq(processed, LAMBDA r : r.lev = 0),
        UniqueSeq([i \in 1..Len(processed) |-> processed[i].assembly_id]),
        threshold)

\* bom_utils.py analyze_bom_data
analyze_bom_data(bom_df, threshold) ==
    analyze_rows(preprocess_bom_file(bom_df).rows, threshold)

Call_analyze_bom_data ==
    /\ fn = "idle"
    /\ fn' = "bom_utils.analyze_bom_data"
    /\ \E threshold \in {0, 70 * Scale} :
           output' = Returned(analyze_bom_data(input, threshold))
    /\ UNCHANGED input
    /\ UNCHANGED svc_vars
    /\ UNCHANGED upload_vars

\* main.py analyze_bom_data raises KeyError like its preprocess_bom_file
Call_main_analyze_bom_data ==
    /\ fn = "idle"
    /\ fn' = "main.analyze_bom_data"
    /\ \E threshold \in {0, 70 * Scale} :
           output' = IF main_preprocess_raises(input) THEN Raised
                     ELSE Returned(main_analyze_bom_data(main_frame(input), threshold))
    /\ UNCHANGED input
    /\ UNCHANGED svc_vars
    /\ UNCHANGED upload_vars

----------------------------------------------------------------------------
(* bom_savings_utils.py: the cost savings calculator                       *)
(* A price is a whole number of currency units; a percentage is the exact  *)
(* fraction num / den.                                                     *)

GBP == <<"G", "B", "P">>

\* parse_bom_file, lines 27-46
column_mapping ==
       (<<"c", "o", "m", "p", "o", "n", "e", "n", "t">> :> s_component)
    @@ (<<"p", "a", "r", "t", " ", "n", "o">> :> s_component)
    @@ (<<"p", "a", "r", "t", " ", "n", "u", "m", "b", "e", "r">> :> s_component)
    @@ (<<"p", "a", "r", "t", "_", "n", "o">> :> s_component)
    @@ (<<"p", "a", "r", "t", "_", "n", "u", "m", "b", "e", "r">> :> s_component)
    @@ (<<"l", "e", "v">> :> s_lev)
    @@ (<<"l", "e", "v", "e", "l">> :> s_lev)
    @@ (<<"l", "v", "l">> :> s_lev)
    @@ (<<"q", "u", "a", "n", "t", "i", "t", "y">> :> s_quantity)
    @@ (<<"q", "t", "y">> :> s_quantity)
    @@ (<<"s", "t", "d", " ", "p", "r", "i", "c", "e">> :> s_std_price)
    @@ (<<"s", "t", "d", "_", "p", "r", "i", "c", "e">> :> s_std_price)
    @@ (<<"p", "r", "i", "c", "e">> :> s_std_price)
    @@ (<<"c", "o", "s", "t">> :> s_std_price)
    @@ (<<"u", "n", "i", "t", "_", "p", "r", "i", "c", "e">> :> s_std_price)
    @@ (<<"c", "r", "c", "y">> :> s_currency)
    @@ (<<"c", "u", "r", "r", "e", "n", "c", "y">> :> s_currency)
    @@ (<<"c", "u", "r", "r">> :> s_currency)

\* parse_bom_file from the table read (lines 24-80): [ok, rows]; ok = FALSE
\* is the exception of line 84.  The header holds no name twice.
parse_bom_file(table) ==
    LET stripped == main_lower_strip(table.columns)
        columns  == [i \in 1..Len(stripped) |->
                        IF stripped[i] \in DOMAIN column_mapping
                        THEN column_mapping[stripped[i]] ELSE stripped[i]]
    IN  IF \E col \in {s_component, s_lev, s_quantity, s_std_price} :
               ~HasColumn(columns, col)
        THEN [ok |-> FALSE]
        ELSE [ok |-> TRUE,
              rows |-> [i \in 1..Len(table.rows) |->
                  [component |-> Cell(columns, table.rows[i], s_component),
                   lev       |-> FillNa(Cell(columns, table.rows[i], s_lev)),
                   quantity  |-> IF Cell(columns, table.rows[i], s_quantity) = NaN THEN 1
                                 ELSE Cell(columns, table.rows[i], s_quantity),
                   std_price |-> FillNa(Cell(columns, table.rows[i], s_std_price)),
                   currency  |-> IF HasColumn(columns, s_currency)
                                 THEN Cell(columns, table.rows[i], s_currency)
                                 ELSE GBP]]]

\* the entry of a row with its quantity left out of account
savings_item_unit_quantity(rows, i, level) ==
    [component |-> rows[i].component, quantity |-> 1,
     price |-> rows[i].std_price, currency |-> rows[i].currency,
     level |-> level, row |-> i]
\* lines 111-117 and 120-126: the entry of a row in its assembly's list; row
\* is the position of the row in bom_df, which the code does not keep
savings_item(rows, i, level) ==
    [component |-> rows[i].component, quantity |-> rows[i].quantity,
     price |-> rows[i].std_price, currency |-> rows[i].currency,
     level |-> level, row |-> i]

\* lines 100-127: the loop over the rows, on the first n of them
RECURSIVE savings_scan(_, _)
savings_scan(rows, n) ==
    IF n = 0 THEN [assemblies |-> <<>>, current_assembly |-> NoneStr,
                   assembly_components |-> <<>>]
    ELSE LET prev == savings_scan(rows, n - 1)
         IN  IF rows[n].lev = 0
             THEN [assemblies |->
                       IF prev.current_assembly # NoneStr
                       THEN Append(prev.assemblies,
                                   [assembly |-> prev.current_assembly,
                                    components |-> prev.assembly_components])
                       ELSE prev.assemblies,
                   current_assembly |-> rows[n].component,
                   assembly_components |-> <<savings_item(rows, n, 0)>>]
             ELSE [prev EXCEPT !.assembly_components = Append(@, savings_item(rows, n, 1))]

\* lines 100-138: the assemblies calculate_bom_savings groups the rows into
savings_assemblies(rows) ==
    LET last == savings_scan(rows, Len(rows))
    IN  IF last.current_assembly # NoneStr
        THEN Append(last.assemblies,
                    [assembly |-> last.current_assembly,
                     components |-> last.assembly_components])
        ELSE last.assemblies

\* lines 150-204: the result of one assembly
savings_result(assembly, replacements) ==
    LET assembly_data == assembly.components[1]
        components    == Tail(assembly.components)
        replaced      == SelectSeq(components,
                                   LAMBDA comp : comp.component \in DOMAIN replacements)
        detail == [k \in 1..Len(replaced) |->
                      [old_component |-> replaced[k].component,
                       new_component |-> replacements[replaced[k].component].new_component,
                       quantity |-> replaced[k].quantity,
                       savings |-> replacements[replaced[k].component].price_diff
                                       * replaced[k].quantity,
                       old_price |-> replaced[k].price,
                       new_price |-> replacements[replaced[k].component].new_price]]
        component_savings == SumSet([k \in 1..Len(detail) |-> detail[k].savings],
                                    1..Len(detail))
        price_before == assembly_data.price
    IN  [assembly_code |-> assembly.assembly,
         component |-> assembly_data.component,
         quantity |-> assembly_data.quantity,
         original_price |-> price_before,
         currency |-> assembly_data.currency,
         \* f"{old} -> {new}: (pound sign){savings:.2f}"
         replaced_components |->
             [k \in 1..Len(detail) |->
                 [old |-> detail[k].old_component, new |-> detail[k].new_component,
                  sign |-> "pound", amount |-> detail[k].savings]],
         replaced_components_detail |-> detail,
         total_before |-> price_before,
         total_after |-> price_before - component_savings,
         savings |-> component_savings,
         savings_percent |->
             IF price_before > 0 THEN [num |-> component_savings * 100, den |-> price_before]
             ELSE [num |-> 0, den |-> 1]]

\* the results and the summary with every assembly of nonzero savings counted
calculate_bom_savings_counting_nonzero(rows, replacements) ==
    LET assemblies == savings_assemblies(rows)
        results == [k \in 1..Len(assemblies) |-> savings_result(assemblies[k], replacements)]
        all     == 1..Len(results)
        total_cost_before == SumSet([k \in all |-> results[k].total_before], all)
        total_savings     == SumSet([k \in all |-> results[k].savings], all)
    IN  [results |-> results,
         total_stats |->
             [assemblies_processed |-> Len(results),
              assemblies_with_savings |->
                  Cardinality({k \in all : results[k].savings # 0}),
              total_cost_before |-> total_cost_before,
              total_savings |-> total_savings,
              components_replaced |->
                  SumSet([k \in all |-> Len(results[k].replaced_components_detail)], all),
              total_cost_after |-> total_cost_before - total_savings,
              avg_savings_percent |->
                  IF total_cost_before > 0
                  THEN [num |-> total_savings * 100, den |-> total_cost_before]
                  ELSE [num |-> 0, den |-> 1]]]
\* lines 141-214: the results and the summary
calculate_bom_savings(rows, replacements) ==
    LET assemblies == savings_assemblies(rows)
        results == [k \in 1..Len(assemblies) |-> savings_result(assemblies[k], replacements)]
        all     == 1..Len(results)
        total_cost_before == SumSet([k \in all |-> results[k].total_before], all)
        total_savings     == SumSet([k \in all |-> results[k].savings], all)
    IN  [results |-> results,
         total_stats |->
             [assemblies_processed |-> Len(results),
              assemblies_with_savings |->
                  Cardinality({k \in all : results[k].savings > 0}),
              total_cost_before |-> total_cost_before,
              total_savings |-> total_savings,
              components_replaced |->
                  SumSet([k \in all |-> Len(results[k].replaced_components_detail)], all),
              total_cost_after |-> total_cost_before - total_savings,
              avg_savings_percent |->
                  IF total_cost_before > 0
                  THEN [num |-> total_savings * 100, den |-> total_cost_before]
                  ELSE [num |-> 0, den |-> 1]]]

\* a replacement of one component by a new one
Replacement(price_diff) ==
    [price_diff |-> price_diff, new_component |-> <<"N">>, new_price |-> 5 - price_diff]

\* the replacement maps a caller supplies: none, B cheaper, B dearer, A and B
ReplacementMaps ==
    {<<>>,
     (<<"B">> :> Replacement(2)),
     (<<"B">> :> Replacement(-2)),
     (<<"A">> :> Replacement(1)) @@ (<<"B">> :> Replacement(2))}

\* calculate_bom_savings on the table as parse_bom_file cleans it; the
\* grouping of the rows is kept with the result
Call_calculate_bom_savings ==
    /\ fn = "idle"
    /\ fn' = "bom_savings_utils.calculate_bom_savings"
    /\ \E replacements \in ReplacementMaps :
           /\ input' = [columns |-> input.columns, rows |-> input.rows,
                        replacements |-> replacements]
           /\ output' =
                  IF ~parse_bom_file(input).ok THEN Raised
                  ELSE [raised |-> FALSE,
                        result |-> calculate_bom_savings(parse_bom_file(input).rows,
                                                         replacements),
                        assemblies |-> savings_assemblies(parse_bom_file(input).rows)]
    /\ UNCHANGED svc_vars
    /\ UNCHANGED upload_vars

TableNext ==
    \/ Call_preprocess_bom_file
    \/ Call_main_preprocess_bom_file
    \/ Call_analyze_bom_data
    \/ Call_main_analyze_bom_data
    \/ Call_calculate_bom_savings

TableSpec == TableInit /\ [][TableNext]_vars
----------------------------------------------------------------------------
(* Properties of the normalisation and of the analysis of a table          *)

PreprocessFns == {"bom_utils.preprocess_bom_file", "main.preprocess_bom_file"}

\* a preprocess_bom_file call has returned a table
Preprocessed == fn \in PreprocessFns /\ ~output.raised

\* the level-0 rows of the returned table and its assembly ids
LevelZeroRows == {i \in 1..Len(output.result.rows) : output.result.rows[i].lev = 0}

AssemblyIds == {output.result.rows[i].assembly_id : i \in 1..Len(output.result.rows)}

TrimmedName(i) == Strip(output.result.rows[i].component)

NumAssemblies(table) ==
    Cardinality({preprocess_bom_file(table).rows[i].assembly_id :
                    i \in 1..Len(table.rows)})

StatisticsCounters ==
    {"total_components", "unique_components", "total_assemblies",
     "total_clusters", "similar_pairs_count", "reduction_potential"}

\* C9: analyze_bom_data on a table with fewer than two distinct assemblies
\* returns, without raising, an empty similarity matrix, no pairs, no
\* suggestions, no clusters, and a bom_statistics block with all six
\* counters present and zero.
C9_FewAssembliesZeroedResult ==
    ( /\ fn \in {"bom_utils.analyze_bom_data", "main.analyze_bom_data"}
      /\ NumAssemblies(input) < 2
      /\ fn = "main.analyze_bom_data" => ~main_preprocess_raises(input) )
    => /\ ~output.raised
       /\ output.result.similarity_matrix = <<>>
       /\ output.result.similar_pairs = <<>>
       /\ output.result.replacement_suggestions = <<>>
       /\ output.result.clusters = <<>>
       /\ DOMAIN output.result.bom_statistics = StatisticsCounters
       /\ \A c \in StatisticsCounters : output.result.bom_statistics[c] = 0
----------------------------------------------------------------------------
(* bom_analysis.py: the legacy similarity matrix, and the calls of the     *)
(* similarity functions on dictionaries of component maps                  *)

\* bom_analysis.py calculate_similarity_matrix: intersection / union as the
\* exact fraction num / den, 0 when the union is empty
calculate_similarity_matrix(bom_vectors) ==
    [bom_a \in DOMAIN bom_vectors |-> [bom_b \in DOMAIN bom_vectors |->
        LET set_a == DOMAIN bom_vectors[bom_a]
            set_b == DOMAIN bom_vectors[bom_b]
            intersection == Cardinality(set_a \cap set_b)
            union == Cardinality(set_a \cup set_b)
        IN  IF union > 0 THEN [num |-> intersection, den |-> union]
            ELSE [num |-> 0, den |-> 1]]]

c_A == <<"A">>
c_B == <<"B">>
c_C == <<"C">>
c_D == <<"D">>

\* the component maps over a set of names, quantities 1..MaxQty
ComponentMaps(names) == UNION {[S -> 1..MaxQty] : S \in SUBSET names}

\* the component maps over a set of names with every quantity 1
ComponentSets(names) == {[c \in S |-> 1] : S \in SUBSET names}

A3 == <<"A", "3">>

\* the unit prices a caller knows: none, or some with one that is not a number
UnitPriceMaps == {<<>>, (c_A :> 1) @@ (c_B :> 2) @@ (c_D :> NaN)}
\* dictionaries of one, two or three assemblies, in key order, with a threshold in
\* percent
SimilarityInputs ==
    [assemblies : {<<>>}, components : {<<>>}, threshold : {0}]
    \cup {[assemblies |-> <<A1>>, components |-> (A1 :> m), threshold |-> 0] :
             m \in ComponentMaps({c_A})}
    \cup {[assemblies |-> <<A1, A2>>,
           components |-> (A1 :> m1) @@ (A2 :> m2),
           threshold  |-> t] :
             m1 \in ComponentMaps({c_A, c_B, c_C}),
             m2 \in ComponentMaps({c_B, c_C, c_D}),
             t  \in {0, 50 * Scale}}
    \cup {[assemblies |-> <<A1, A2, A3>>,
           components |-> (A1 :> m1) @@ (A2 :> m2) @@ (A3 :> m3),
           threshold  |-> 0] :
             m1 \in ComponentSets({c_A, c_B, c_C}),
             m2 \in ComponentSets({c_A, c_B, c_C}),
             m3 \in ComponentSets({c_A, c_B, c_C})}

SimilarityInit ==
    /\ SvcInit
    /\ fn = "idle"
    /\ input \in SimilarityInputs
    /\ output = <<>>

Call_compute_bom_similarity ==
    /\ fn = "idle"
    /\ fn' = "bom_utils.compute_bom_similarity"
    /\ output' = Returned(compute_bom_similarity(input.assemblies, input.components,
                                                 input.threshold))
    /\ UNCHANGED input
    /\ UNCHANGED svc_vars
    /\ UNCHANGED upload_vars

Call_calculate_similarity_matrix ==
    /\ fn = "idle"
    /\ fn' = "bom_analysis.calculate_similarity_matrix"
    /\ output' = Returned(calculate_similarity_matrix(input.components))
    /\ UNCHANGED input
    /\ UNCHANGED svc_vars
    /\ UNCHANGED upload_vars

Call_main_compute_bom_similarity ==
    /\ fn = "idle"
    /\ fn' = "main.compute_bom_similarity"
    /\ output' = Returned(main_compute_bom_similarity(input.assemblies, input.components,
                                                      input.threshold))
    /\ UNCHANGED input
    /\ UNCHANGED svc_vars
    /\ UNCHANGED upload_vars

\* generate_component_replacement_table on the similar pairs of
\* compute_bom_similarity, as analyze_bom_data calls it (lines 650-660); the
\* pairs are kept with the table
Call_generate_component_replacement_table ==
    /\ fn = "idle"
    /\ fn' = "bom_utils.generate_component_replacement_table"
    /\ \E unit_price_map \in UnitPriceMaps :
           LET similar_pairs ==
                   compute_bom_similarity(input.assemblies, input.components,
                                          input.threshold).similar_pairs
           IN  /\ input' = [assemblies |-> input.assemblies,
                            components |-> input.components,
                            threshold |-> input.threshold,
                            unit_price_map |-> unit_price_map]
               /\ output' = [raised |-> FALSE,
                             result |-> generate_component_replacement_table(
                                            input.components, similar_pairs,
                                            unit_price_map),
                             similar_pairs |-> similar_pairs]
    /\ UNCHANGED svc_vars
    /\ UNCHANGED upload_vars
SimilarityNext ==
    \/ Call_compute_bom_similarity
    \/ Call_main_compute_bom_similarity
    \/ Call_calculate_similarity_matrix
    \/ Call_generate_component_replacement_table

SimilaritySpec == SimilarityInit /\ [][SimilarityNext]_vars

\* C7: in every similarity matrix produced, by compute_bom_similarity (in
\* percent) and by the legacy calculate_similarity_matrix (as a fraction),
\* the similarity of each assembly with itself is 100% / 1.0, whether its
\* component set is empty or not.
C7_SelfSimilarityIsFull ==
    /\ fn = "bom_utils.compute_bom_similarity" =>
           \A a \in DOMAIN output.result.similarity_matrix :
               output.result.similarity_matrix[a][a] = 100 * Scale
    /\ fn = "bom_analysis.calculate_similarity_matrix" =>
           \A a \in DOMAIN output.result :
               output.result[a][a].num = output.result[a][a].den

\* the two name sets of a two-assembly dictionary
NamesA == DOMAIN input.components[input.assemblies[1]]
NamesB == DOMAIN input.components[input.assemblies[2]]

\* every component of both assemblies carries the same quantity
PresenceOnly ==
    \E q \in 1..MaxQty :
        \A a \in DOMAIN input.components :
            \A c \in DOMAIN input.components[a] : input.components[a][c] = q

\* value (scaled by Scale) is num / den rounded to the sixth decimal
RoundsTo(value, num, den) ==
    LET diff == value * den - num * Scale
    IN  2 * (IF diff < 0 THEN -diff ELSE diff) <= den

NamesOf(list) == {e.component : e \in list}

\* C8: for two presence-only assemblies with name sets A and B, not both
\* empty, compute_bom_similarity puts |A n B| / |A u B| as a percentage in
\* the matrix, emits the pair when the threshold is 0, and every emitted
\* pair carries that ratio as a fraction, common names exactly A n B and
\* unique names exactly A \ B and B \ A.
C8_PresenceOnlyJaccard ==
    ( /\ fn = "bom_utils.compute_bom_similarity"
      /\ Len(input.assemblies) = 2
      /\ PresenceOnly
      /\ NamesA \cup NamesB # {} )
    => LET a == input.assemblies[1]
           b == input.assemblies[2]
           inter == Cardinality(NamesA \cap NamesB)
           union == Cardinality(NamesA \cup NamesB)
           pairs == output.result.similar_pairs
       IN  /\ RoundsTo(output.result.similarity_matrix[a][b], 100 * inter, union)
           /\ RoundsTo(output.result.similarity_matrix[b][a], 100 * inter, union)
           /\ input.threshold = 0 => Len(pairs) = 1
           /\ \A k \in 1..Len(pairs) :
                  /\ pairs[k].bom_a = a /\ pairs[k].bom_b = b
                  /\ RoundsTo(pairs[k].similarity_score, inter, union)
                  /\ NamesOf(pairs[k].common_components) = NamesA \cap NamesB
                  /\ NamesOf(pairs[k].unique_components_a) = NamesA \ NamesB
                  /\ NamesOf(pairs[k].unique_components_b) = NamesB \ NamesA

\* {A,B,C} against {B,C,D}: 50%, common {B,C}, unique {A} and {D}
C8_Witness ==
    /\ fn = "bom_utils.compute_bom_similarity"
    /\ Len(input.assemblies) = 2
    /\ PresenceOnly
    /\ NamesA = {c_A, c_B, c_C}
    /\ NamesB = {c_B, c_C, c_D}
    /\ output.result.similarity_matrix[A1][A2] = 50 * Scale
    /\ Len(output.result.similar_pairs) = 1
    /\ output.result.similar_pairs[1].similarity_score = Scale \div 2
    /\ NamesOf(output.result.similar_pairs[1].common_components) = {c_B, c_C}
    /\ NamesOf(output.result.similar_pairs[1].unique_components_a) = {c_A}
    /\ NamesOf(output.result.similar_pairs[1].unique_components_b) = {c_D}

----------------------------------------------------------------------------
(* The registries of uploaded files                                        *)

\* what an upload response and a listing report of a registry entry
Reported(entry) ==
    [filename |-> entry.filename, record_count |-> entry.record_count,
     columns |-> entry.columns]

\* every entry of the registry before a request is there after it, reporting
\* the same filename, record_count and columns and holding the same records
RegistryKept(before, after) ==
    \A fid \in DOMAIN before :
        /\ fid \in DOMAIN after
        /\ Reported(after[fid]) = Reported(before[fid])
        /\ after[fid].data = before[fid].data

\* the request just answered is a successful upload to this endpoint, and it
\* stored under a new id what its response reports
UploadRecorded(endpoint, before, after, answer) ==
    (answer.endpoint = endpoint /\ answer.status = 200)
    => /\ answer.body.file_id \notin DOMAIN before
       /\ answer.body.file_id \in DOMAIN after
       /\ Reported(after[answer.body.file_id]) =
              [filename |-> answer.request,
               record_count |-> answer.body.record_count,
               columns |-> answer.body.columns]

\* C11: every request keeps every registry entry (no entry is removed or
\* replaced, and its filename, record_count and columns stay what they were),
\* and a successful upload adds under a fresh file id an entry with exactly
\* the filename, record_count and columns of its response; so every file id
\* an upload returned stays in its registry as the response reported it
C11_RegistryEntriesKept ==
    [][/\ RegistryKept(weldment_data, weldment_data')
       /\ RegistryKept(bom_data, bom_data')
       /\ response' # response
          => /\ UploadRecorded("upload_weldments", weldment_data, weldment_data', response')
             /\ UploadRecorded("upload_boms", bom_data, bom_data', response')]_vars

\* a clustering analysis has succeeded on an uploaded weldment file and
\* written its columns into the stored table: the entry is still there and
\* still reports the columns and the record count of its upload
C11_Witness ==
    /\ response.endpoint = "analyze_dimensional_clustering"
    /\ response.status = 200
    /\ \E fid \in DOMAIN weldment_data :
           /\ fid = response.request.weldment_file_id
           /\ weldment_data[fid].dataframe.columns # weldment_data[fid].columns
           /\ weldment_data[fid].record_count = Len(weldment_data[fid].data)
           /\ weldment_data[fid].record_count > 0

----------------------------------------------------------------------------
(* Dimensional clustering: the shape of a result                           *)

\* the last request was a dimensional clustering that answered 200
ClusteringAnswered ==
    /\ response.endpoint = "analyze_dimensional_clustering"
    /\ response.status = 200

\* the table the answered clustering request ran on, labels written
ClusteredTable == weldment_data[response.request.weldment_file_id].dataframe

\* the places (summary k, position m) at which the cluster summaries list
\* the part number of a row
MemberPlaces(clusters, pn) ==
    {<<k, m>> \in (1..Len(clusters)) \X (1..MaxRows) :
        m <= Len(clusters[k].members) /\ clusters[k].members[m] = pn}

\* C12: when a dimensional clustering (kmeans, hierarchical or dbscan)
\* answers, visualization_data has one point per row of the table, carrying
\* the row's label; a row whose label is not -1 is listed in the members of
\* exactly one cluster summary, the one of its label, exactly once; the
\* label -1 occurs only for dbscan; metrics.n_samples is the row count and
\* metrics.n_clusters the number of cluster summaries
C12_EveryRowLabelledOnce ==
    ClusteringAnswered
    => LET c    == response.body.clustering_result
           rows == ClusteredTable.rows
       IN  /\ response.request.clustering_method \in ClusteringMethods
           /\ Len(c.visualization_data) = Len(rows)
           /\ \A i \in 1..Len(rows) :
                  /\ c.visualization_data[i].assy_pn = rows[i].assy_pn
                  /\ c.visualization_data[i].cluster = rows[i].cluster
                  /\ rows[i].cluster = -1
                     => response.request.clustering_method = "dbscan"
                  /\ rows[i].cluster # -1
                     => \E place \in MemberPlaces(c.clusters, rows[i].assy_pn) :
                            /\ MemberPlaces(c.clusters, rows[i].assy_pn) = {place}
                            /\ c.clusters[place[1]].cluster_id = rows[i].cluster
           /\ c.metrics.n_samples = Len(rows)
           /\ c.metrics.n_clusters = Len(c.clusters)

\* dbscan has answered with one cluster of two rows and one noise row
C12_Witness ==
    /\ ClusteringAnswered
    /\ response.request.clustering_method = "dbscan"
    /\ Len(ClusteredTable.rows) = 3
    /\ \E i \in 1..3 : ClusteredTable.rows[i].cluster = -1
    /\ Len(response.body.clustering_result.clusters) = 1
    /\ response.body.clustering_result.clusters[1].member_count = 2

----------------------------------------------------------------------------
(* Similar pairs: quantities                                               *)

\* the two implementations of compute_bom_similarity
SimilarityFns == {"bom_utils.compute_bom_similarity", "main.compute_bom_similarity"}

\* the quantity the input dictionaries give a component in an assembly
InputQty(assembly, component) ==
    IF component \in DOMAIN input.components[assembly]
    THEN input.components[assembly][component] ELSE 0

\* C13: in every pair compute_bom_similarity emits (bom_utils.py and
\* main.py), each entry of common_components carries the two assemblies'
\* quantities of its component and a common_qty no larger than the smaller
\* of them, and common_quantity_total is the sum of the common_qty values of
\* the list
C13_CommonQtyBounded ==
    fn \in SimilarityFns
    => \A k \in 1..Len(output.result.similar_pairs) :
           LET pair == output.result.similar_pairs[k]
           IN  /\ \A e \in pair.common_components :
                      /\ e.qty_a = InputQty(pair.bom_a, e.component)
                      /\ e.qty_b = InputQty(pair.bom_b, e.component)
                      /\ e.common_qty <= Min2(e.qty_a, e.qty_b)
               /\ pair.common_quantity_total =
                      SumSet([e \in pair.common_components |-> e.common_qty],
                             pair.common_components)

\* a pair of bom_utils.py with two common components, of which one is used
\* twice in the first assembly and once in the second: common_qty 1, total 2
C13_Witness ==
    /\ fn = "bom_utils.compute_bom_similarity"
    /\ Len(output.result.similar_pairs) = 1
    /\ Cardinality(output.result.similar_pairs[1].common_components) = 2
    /\ \E e \in output.result.similar_pairs[1].common_components :
           e.qty_a = 2 /\ e.qty_b = 1 /\ e.common_qty = 1
    /\ output.result.similar_pairs[1].common_quantity_total = 2

----------------------------------------------------------------------------
(* The helper functions: clean_column_name, calculate_reduction_potential  *)

NameChars == {"A", "b", "1", "_", " "}

\* a cluster of n assemblies
ClusterOfSize(n) == [i \in 1..n |-> SyntheticAssy(i)]

UtilInit ==
    /\ SvcInit
    /\ fn = "idle"
    /\ output = <<>>
    /\ \/ input = [kind |-> "name", name |-> NoneStr]
       \/ \E n \in 0..MaxNameLen : \E name \in [1..n -> NameChars] :
              input = [kind |-> "name", name |-> name]
       \/ \E k \in 0..MaxClusters : \E sizes \in [1..k -> 0..MaxRows] :
              \E total \in 0..MaxTotal :
                  input = [kind |-> "clusters",
                           clusters |-> [i \in 1..k |-> ClusterOfSize(sizes[i])],
                           total |-> total]
       \/ \E rows \in 1..MaxSamples :
              \E n_clusters \in {<<>>} \cup {<<n>> : n \in (-1)..(MaxSamples + 1)} :
                  input = [kind |-> "count", n_clusters |-> n_clusters, rows |-> rows]

\* clean_column_name of bom_utils.py (main.py and clustering_utils.py have
\* the same text), applied to a name, and again to its own result
Call_clean_column_name ==
    /\ input.kind = "name"
    /\ fn \in {"idle", "bom_utils.clean_column_name"}
    /\ fn' = "bom_utils.clean_column_name"
    /\ input' = IF fn = "idle" THEN input ELSE [input EXCEPT !.name = output.result]
    /\ output' = Returned(clean_column_name(input'.name))
    /\ UNCHANGED svc_vars
    /\ UNCHANGED upload_vars

\* clean_column_name of utils.py, applied to a name, and again to its result
Call_utils_clean_column_name ==
    /\ input.kind = "name"
    /\ fn \in {"idle", "utils.clean_column_name"}
    /\ fn' = "utils.clean_column_name"
    /\ input' = IF fn = "idle" THEN input ELSE [input EXCEPT !.name = output.result]
    /\ output' = Returned(utils_clean_column_name(input'.name))
    /\ UNCHANGED svc_vars
    /\ UNCHANGED upload_vars

Call_calculate_reduction_potential ==
    /\ input.kind = "clusters"
    /\ fn = "idle"
    /\ fn' = "calculate_reduction_potential"
    /\ output' = Returned(calculate_reduction_potential(input.clusters, input.total))
    /\ UNCHANGED input
    /\ UNCHANGED svc_vars
    /\ UNCHANGED upload_vars

\* the cluster count of main.py analyze_dimensional_clustering (lines
\* 659-666) and of clustering_utils.py perform_dimensional_clustering (lines
\* 110-117, the same text) for a table of input.rows rows
Call_resolve_n_clusters ==
    /\ input.kind = "count"
    /\ fn = "idle"
    /\ fn' = "resolve_n_clusters"
    /\ output' = Returned(resolve_n_clusters(input.n_clusters, input.rows))
    /\ UNCHANGED input
    /\ UNCHANGED svc_vars
    /\ UNCHANGED upload_vars

UtilNext ==
    \/ Call_clean_column_name
    \/ Call_utils_clean_column_name
    \/ Call_calculate_reduction_potential
    \/ Call_resolve_n_clusters

UtilSpec == UtilInit /\ [][UtilNext]_vars

\* the assemblies a cluster list lets one remove: the members of its
\* clusters less one kept for each cluster that has a member
Removable(clusters) ==
    LET nonempty == {k \in 1..Len(clusters) : clusters[k] # <<>>}
    IN  SumSet([k \in nonempty |-> Len(clusters[k])], nonempty) - Cardinality(nonempty)

\* C14: calculate_reduction_potential(clusters, total) is 0.0 when total is
\* 0; otherwise it is a number of one decimal within 0.05 of
\* (sum over the clusters of max(0, size - 1)) / total * 100; and
\* [[a,b,c],[d]] over 4 assemblies gives 50.0
C14_ReductionPotential ==
    fn = "calculate_reduction_potential"
    => LET tenths == output.result \div (Scale \div 10)
           diff   == tenths * input.total - Removable(input.clusters) * 1000
       IN  /\ output.result % (Scale \div 10) = 0
           /\ input.total = 0 => output.result = 0
           /\ input.total > 0 => 2 * (IF diff < 0 THEN -diff ELSE diff) <= input.total
           /\ (input.clusters = <<ClusterOfSize(3), ClusterOfSize(1)>> /\ input.total = 4)
              => output.result = 50 * Scale

\* [[a,b,c],[d]] over 4 assemblies has given 50.0
C14_Witness ==
    /\ fn = "calculate_reduction_potential"
    /\ input.clusters = <<ClusterOfSize(3), ClusterOfSize(1)>>
    /\ input.total = 4
    /\ output.result = 50 * Scale

CleanFns == {"bom_utils.clean_column_name", "utils.clean_column_name"}

\* C15: a result of clean_column_name (bom_utils.py and utils.py) has no
\* upper-case letter, no underscore at either end and no two underscores in
\* a row, and cleaning a result again gives the same string
C15_CleanIsIdempotent ==
    /\ [](fn \in CleanFns
          => LET s == output.result
             IN  /\ \A i \in 1..Len(s) : s[i] \notin Range(UpperCase)
                 /\ s # <<>> => s[1] # "_" /\ s[Len(s)] # "_"
                 /\ \A i \in 1..(Len(s) - 1) : ~(s[i] = "_" /\ s[i + 1] = "_"))
    /\ [][(fn \in CleanFns /\ fn' = fn) => output' = output]_vars

\* a name with an upper-case letter, a blank and underscores has been
\* cleaned, and its result cleaned again
C15_Witness ==
    /\ fn \in CleanFns
    /\ input.name = output.result
    /\ output.result = <<"a", "_", "b">>

----------------------------------------------------------------------------
(* Similarity and quantities                                               *)

\* the input dictionaries with every quantity replaced by 1: the same
\* component names in each assembly
UnitQuantities ==
    [a \in DOMAIN input.components |-> [c \in DOMAIN input.components[a] |-> 1]]

\* what the applied function returns for the same names with unit quantities
UnitResult ==
    IF fn = "bom_utils.compute_bom_similarity"
    THEN compute_bom_similarity(input.assemblies, UnitQuantities, input.threshold)
    ELSE main_compute_bom_similarity(input.assemblies, UnitQuantities, input.threshold)

\* the pairs of a result with their scores
ScoredPairs(result) ==
    {<<result.similar_pairs[k].bom_a, result.similar_pairs[k].bom_b,
       result.similar_pairs[k].similarity_score>> : k \in 1..Len(result.similar_pairs)}

\* C16: the result of compute_bom_similarity (bom_utils.py and main.py)
\* depends on the component names of each assembly only, not on the
\* quantities: the similarity matrix, the pairs emitted and their
\* similarity_score are those of the same names with every quantity 1, so
\* two inputs that differ in quantities only give the same matrix, pairs and
\* scores
C16_QuantitiesDoNotMatter ==
    fn \in SimilarityFns
    => /\ output.result.similarity_matrix = UnitResult.similarity_matrix
       /\ ScoredPairs(output.result) = ScoredPairs(UnitResult)

\* the entries of similar_pairs for the assemblies at positions i and j
PairEntries(i, j) ==
    {k \in 1..Len(output.result.similar_pairs) :
        /\ output.result.similar_pairs[k].bom_a = input.assemblies[i]
        /\ output.result.similar_pairs[k].bom_b = input.assemblies[j]}

\* C17: compute_bom_similarity (bom_utils.py and main.py) returns a matrix
\* with an entry for every ordered pair of assemblies, each with itself
\* included; similar_pairs has exactly one entry for each pair of distinct
\* assemblies (first before second in key order) whose percentage in the
\* matrix is at least the threshold, no entry for a pair below it, and no
\* other entry
C17_PairsAtOrAboveThreshold ==
    fn \in SimilarityFns
    => LET n      == Len(input.assemblies)
           matrix == output.result.similarity_matrix
       IN  /\ DOMAIN matrix = Range(input.assemblies)
           /\ \A a \in DOMAIN matrix : DOMAIN matrix[a] = Range(input.assemblies)
           /\ \A i \in 1..n : \A j \in 1..n :
                  Cardinality(PairEntries(i, j)) =
                      IF i < j /\ matrix[input.assemblies[i]][input.assemblies[j]]
                                      >= input.threshold
                      THEN 1 ELSE 0
           /\ \A k \in 1..Len(output.result.similar_pairs) :
                  \E i \in 1..n : \E j \in 1..n : k \in PairEntries(i, j)

----------------------------------------------------------------------------
(* Uploads whose handlers interleave (main.py upload_weldments)            *)
(* A handler runs to its `await file.read()` with the file already opened  *)
(* for writing, and from there to its return without another await.  The   *)
(* bytes of a file are the sequence of its lines, the header first.        *)

\* the lines a client's sheet is sent as
Lines(file) == <<file.columns>> \o file.rows

\* pd.read_csv(file_path) on the lines found in the file; a file with no
\* line raises (readable = FALSE)
ParseCsv(filename, lines) ==
    IF lines = <<>>
    THEN [filename |-> filename, readable |-> FALSE, columns |-> <<>>, rows |-> <<>>]
    ELSE [filename |-> filename, readable |-> TRUE,
          columns |-> lines[1], rows |-> Tail(lines)]

\* buffer.write(content) through a descriptor opened at offset 0: the
\* content replaces the first bytes of the file, whatever lies beyond stays
WriteAtStart(stored, content) ==
    IF Len(content) >= Len(stored) THEN content
    ELSE content \o SubSeq(stored, Len(content) + 1, Len(stored))

OtherCsv == [stem |-> "other", ext |-> ".csv"]

\* the sheets the two clients send: three, one or two rows, under the same
\* name, another name, or a name the endpoint rejects
SentFiles ==
    {[filename |-> name, readable |-> TRUE, columns |-> WeldHeader, rows |-> rows] :
        name \in {WeldCsv, OtherCsv, [stem |-> "weld", ext |-> ".pdf"]},
        rows \in {WeldRows, SubSeq(WeldRows, 3, 3), SubSeq(WeldRows, 1, 2)}}

Waiting == [pc |-> "waiting"]

UploadInit ==
    /\ weldment_data = <<>>
    /\ bom_data = <<>>
    /\ analysis_results = <<>>
    /\ analysis_collection = <<>>
    /\ db_up = TRUE
    /\ next_id = 0
    /\ uploads_dir = {}
    /\ response = Response("none", 0, NoBody, NoRequest)
    /\ Idle
    /\ handlers = [h \in 1..MaxHandlers |-> Waiting]
    /\ files = <<>>

\* how many handlers have written their content so far
Written == Cardinality({h \in DOMAIN handlers : handlers[h].pc = "done" /\ handlers[h].wrote > 0})

\* lines 492-501: the request arrives, the extension is checked, the file is
\* opened with mode "wb" (created or truncated) and the handler awaits the
\* request body
upload_open(h, file) ==
    /\ handlers[h].pc = "waiting"
    /\ IF ~SupportedExtension(file.filename)
       THEN /\ handlers' = [handlers EXCEPT ![h] = [pc |-> "done", file |-> file, wrote |-> 0]]
            /\ response' = HttpError("upload_weldments", 400,
                                     "Only Excel and CSV files are supported", file.filename)
            /\ UNCHANGED <<files, uploads_dir>>
       ELSE /\ handlers' = [handlers EXCEPT ![h] = [pc |-> "reading", file |-> file]]
            /\ files' = Put(files, file.filename, <<>>)
            /\ uploads_dir' = uploads_dir \cup {file.filename}
            /\ UNCHANGED response
    /\ UNCHANGED <<weldment_data, bom_data, analysis_results, analysis_collection,
                   db_up, next_id>>
    /\ UNCHANGED lib_vars

\* lines 501-533: the body has been read; it is written and the file closed,
\* read back and parsed, validated and stored in the registry
upload_write(h) ==
    /\ handlers[h].pc = "reading"
    /\ next_id < MaxIds
    /\ LET ep      == "upload_weldments"
           file    == handlers[h].file
           stored  == WriteAtStart(files[file.filename], Lines(file))
           result  == main_validate_weldment_data(ParseCsv(file.filename, stored))
           file_id == next_id + 1
       IN  /\ files' = Put(files, file.filename, stored)
           /\ handlers' = [handlers EXCEPT ![h] =
                              [pc |-> "done", file |-> file, wrote |-> Written + 1]]
           /\ weldment_data' =
                  IF result.ok
                  THEN Put(weldment_data, file_id, UploadedFile(file, result.df))
                  ELSE weldment_data
           /\ next_id' = IF result.ok THEN file_id ELSE next_id
           /\ response' =
                  IF ~result.ok
                  THEN HttpError(ep, 400, "validation error", file.filename)
                  ELSE Response(ep, 200,
                                UploadBody("File uploaded successfully", file_id, result.df),
                                file.filename)
    /\ UNCHANGED <<bom_data, analysis_results, analysis_collection, db_up, uploads_dir>>
    /\ UNCHANGED lib_vars

UploadNext ==
    \/ \E h \in 1..MaxHandlers : \E file \in SentFiles : upload_open(h, file)
    \/ \E h \in 1..MaxHandlers : upload_write(h)

UploadSpec == UploadInit /\ [][UploadNext]_vars

\* handler h wrote its content to the file of this name, and no handler
\* wrote to it later or still has it open
WroteLast(h, filename) ==
    /\ handlers[h].pc = "done"
    /\ handlers[h].wrote > 0
    /\ handlers[h].file.filename = filename
    /\ \A g \in DOMAIN handlers \ {h} :
           \/ handlers[g].pc = "waiting"
           \/ handlers[g].file.filename # filename
           \/ handlers[g].pc = "done" /\ handlers[g].wrote < handlers[h].wrote

\* C18: when two uploads of the same filename have both completed, however
\* their handlers interleaved, the file under that name holds exactly the
\* bytes of the upload that wrote last
C18_LastWriterWins ==
    \A h \in DOMAIN handlers : \A g \in DOMAIN handlers \ {h} :
        ( /\ handlers[g].pc = "done"
          /\ handlers[g].wrote > 0
          /\ WroteLast(h, handlers[g].file.filename) )
        => files[handlers[h].file.filename] = Lines(handlers[h].file)

----------------------------------------------------------------------------
(* Dimensional clustering and the stored table                             *)

\* C19: a dimensional-clustering request that answers leaves the stored
\* table of its weldment file as it was, so the numeric feature columns the
\* same request would use next are the numeric_columns of this result, and
\* none of them is a column the analysis adds (cluster, PC1, PC2)
C19_StoredTableUnchanged ==
    [][(ClusteringAnswered' /\ response' # response)
       => LET fid == response'.request.weldment_file_id
              used == response'.body.clustering_result.numeric_columns
          IN  /\ weldment_data'[fid].dataframe = weldment_data[fid].dataframe
              /\ numeric_columns(weldment_data'[fid].dataframe) = used
              /\ \A i \in 1..Len(used) : used[i] \notin {s_cluster, s_PC1, s_PC2}]_vars

----------------------------------------------------------------------------
(* The savings calculator and the normalisation                            *)

\* calculate_bom_savings has returned
SavingsReturned ==
    fn = "bom_savings_utils.calculate_bom_savings" /\ ~output.raised

\* the assemblies (by position in the grouping) that hold the row
SavingsGroupsOf(row) ==
    {k \in 1..Len(output.assemblies) :
        \E c \in 1..Len(output.assemblies[k].components) :
            output.assemblies[k].components[c].row = row}

\* C20: calculate_bom_savings puts every row of the table in exactly one
\* assembly, rows before the first level-0 row included, and two rows are
\* in the same assembly exactly when preprocess_bom_file gives them the same
\* assembly_id
C20_SavingsGroupsAsPreprocess ==
    SavingsReturned
    => LET normal == preprocess_bom_file([columns |-> input.columns,
                                          rows |-> input.rows]).rows
           n == Len(input.rows)
       IN  /\ \A i \in 1..n : Cardinality(SavingsGroupsOf(i)) = 1
           /\ \A i \in 1..n : \A j \in 1..n :
                  (SavingsGroupsOf(i) = SavingsGroupsOf(j))
                  <=> (normal[i].assembly_id = normal[j].assembly_id)

----------------------------------------------------------------------------
(* The savings of one assembly                                             *)

\* the level-0 rows of the table calculate_bom_savings was called on, in
\* table order; the cells of a priced row are name, level, quantity, price
SavingsHeaders ==
    SelectSeq([i \in 1..Len(input.rows) |-> i], LAMBDA i : input.rows[i][2] = 0)

\* the component rows of the k-th assembly: the rows after its header up to
\* the next header
SavingsComponentRows(k) ==
    {i \in 1..Len(input.rows) :
        /\ i > SavingsHeaders[k]
        /\ k < Len(SavingsHeaders) => i < SavingsHeaders[k + 1]}

\* the component rows of the k-th assembly that are named in the replacements
SavingsReplacedRows(k) ==
    {i \in SavingsComponentRows(k) : input.rows[i][1] \in DOMAIN input.replacements}

\* the sum of price_diff x quantity over those rows
SavingsExpected(k) ==
    SumSet([i \in 1..Len(input.rows) |->
               IF i \in SavingsReplacedRows(k)
               THEN input.replacements[input.rows[i][1]].price_diff * input.rows[i][3]
               ELSE 0],
           SavingsReplacedRows(k))

\* C21: for every assembly calculate_bom_savings reports savings equal to the
\* sum of price_diff x quantity over the component rows of the assembly
\* (header excluded) named in the replacements, total_after equal to the
\* header's price minus the savings, and savings_percent equal to
\* savings / price x 100, 0 when the price is not positive
C21_AssemblySavings ==
    SavingsReturned
    => /\ Len(output.result.results) = Len(SavingsHeaders)
       /\ \A k \in 1..Len(SavingsHeaders) :
              LET r     == output.result.results[k]
                  price == input.rows[SavingsHeaders[k]][4]
              IN  /\ r.savings = SavingsExpected(k)
                  /\ r.total_after = price - SavingsExpected(k)
                  /\ IF price > 0
                     THEN r.savings_percent.num * price
                              = SavingsExpected(k) * 100 * r.savings_percent.den
                     ELSE r.savings_percent.num = 0

\* an assembly without a price whose header is named in the replacements,
\* with a replaced component used twice and a component that is not replaced
C21_Witness ==
    /\ SavingsReturned
    /\ \E k \in 1..Len(SavingsHeaders) :
           /\ input.rows[SavingsHeaders[k]][4] = 0
           /\ input.rows[SavingsHeaders[k]][1] \in DOMAIN input.replacements
           /\ \E i \in SavingsReplacedRows(k) : input.rows[i][3] = 2
           /\ SavingsReplacedRows(k) # SavingsComponentRows(k)
           /\ output.result.results[k].savings = 4
           /\ output.result.results[k].total_after = -4

(* The summary of the savings                                              *)

\* the assemblies of the table, by position among the level-0 rows
SavingsAll == 1..Len(SavingsHeaders)

\* the sum of the header prices, and of the savings of the assemblies
SavingsCostBefore ==
    SumSet([k \in SavingsAll |-> input.rows[SavingsHeaders[k]][4]], SavingsAll)

SavingsTotal == SumSet([k \in SavingsAll |-> SavingsExpected(k)], SavingsAll)

\* what the summary says of the counts of rows and of the costs
SavingsTotalsAgree ==
    LET stats == output.result.total_stats
    IN  /\ stats.assemblies_processed = Len(SavingsHeaders)
        /\ stats.total_cost_before = SavingsCostBefore
        /\ stats.total_savings = SavingsTotal
        /\ stats.total_cost_after = stats.total_cost_before - stats.total_savings

\* C22 as stated: in the summary of calculate_bom_savings,
\* assemblies_with_savings is the number of assemblies whose savings is
\* nonzero, for any replacements map, one with negative price_diff values
\* included; assemblies_processed is the number of level-0 rows and
\* total_cost_after is total_cost_before minus total_savings
C22_CountsNonzeroSavings ==
    SavingsReturned
    => /\ SavingsTotalsAgree
       /\ output.result.total_stats.assemblies_with_savings
              = Cardinality({k \in SavingsAll : SavingsExpected(k) # 0})

\* C22 amended: assemblies_with_savings is the number of assemblies whose
\* savings is positive, for any replacements map, one with negative
\* price_diff values included; assemblies_processed is the number of level-0
\* rows and total_cost_after is total_cost_before minus total_savings
C22_CountsPositiveSavings ==
    SavingsReturned
    => /\ SavingsTotalsAgree
       /\ output.result.total_stats.assemblies_with_savings
              = Cardinality({k \in SavingsAll : SavingsExpected(k) > 0})

\* two assemblies, one of them dearer after the replacement and none
\* cheaper: no assembly is counted and the cost after exceeds the cost before
C22_Witness ==
    /\ SavingsReturned
    /\ Len(SavingsHeaders) = 2
    /\ \E k \in SavingsAll : SavingsExpected(k) < 0
    /\ output.result.total_stats.assemblies_with_savings = 0
    /\ output.result.total_stats.total_cost_after
           > output.result.total_stats.total_cost_before

----------------------------------------------------------------------------
(* The component replacement table                                         *)

\* generate_component_replacement_table has returned
ReplacementTableReturned ==
    fn = "bom_utils.generate_component_replacement_table" /\ ~output.raised

\* descending DeltaPct and, among rows of equal DeltaPct, ascending
\* estimated_cost_delta
RowsSorted(rows) ==
    \A i \in 1..Len(rows) : \A j \in 1..Len(rows) :
        i < j => \/ rows[i].DeltaPct > rows[j].DeltaPct
                 \/ /\ rows[i].DeltaPct = rows[j].DeltaPct
                    /\ rows[i].estimated_cost_delta <= rows[j].estimated_cost_delta

\* C23: the rows of the component replacement table returned by
\* generate_component_replacement_table, for any number of similar pairs,
\* are sorted by descending DeltaPct and, among rows with equal DeltaPct, by
\* ascending estimated_cost_delta
C23_TableSorted ==
    ReplacementTableReturned => RowsSorted(output.result)

----------------------------------------------------------------------------
(* find_assembly_clusters on any similarity matrix                         *)

ClusterNames == <<A1, A2, A3, <<"A", "4">>, <<"A", "5">>>>

\* the similarities of two different assemblies: at the threshold and above
ClusterSimilarities == {80 * Scale, 90 * Scale}

\* a list of assemblies without duplicates and a matrix over them, symmetric
\* or not, with 100 on the diagonal
ClusterInit ==
    /\ SvcInit
    /\ fn = "idle"
    /\ output = <<>>
    /\ \E n \in 0..MaxAssemblies :
           LET assemblies == SubSeq(ClusterNames, 1, n)
               names == {assemblies[i] : i \in 1..n}
           IN  \E off \in [{p \in names \X names : p[1] # p[2]} -> ClusterSimilarities] :
                   input = [assemblies |-> assemblies,
                            similarity_matrix |->
                                [a \in names |-> [b \in names |->
                                    IF a = b THEN 100 * Scale ELSE off[<<a, b>>]]]]

Call_find_assembly_clusters ==
    /\ fn = "idle"
    /\ fn' = "bom_utils.find_assembly_clusters"
    /\ output' = Returned(find_assembly_clusters(input.assemblies, input.similarity_matrix))
    /\ UNCHANGED input
    /\ UNCHANGED svc_vars
    /\ UNCHANGED upload_vars

Call_main_find_assembly_clusters ==
    /\ fn = "idle"
    /\ fn' = "main.find_assembly_clusters"
    /\ output' = Returned(main_find_assembly_clusters(input.assemblies,
                                                      input.similarity_matrix))
    /\ UNCHANGED input
    /\ UNCHANGED svc_vars
    /\ UNCHANGED upload_vars

ClusterNext ==
    \/ Call_find_assembly_clusters
    \/ Call_main_find_assembly_clusters

ClusterSpec == ClusterInit /\ [][ClusterNext]_vars

\* one of the two find_assembly_clusters has returned
ClustersReturned ==
    fn \in {"bom_utils.find_assembly_clusters", "main.find_assembly_clusters"}

\* the members of the clusters before the k-th
GroupedBefore(k) == UNION {Range(output.result[j]) : j \in 1..(k - 1)}

\* the similarity the matrix gives to a pair is over 80 percent
Exceeds80(a, b) == input.similarity_matrix[a][b] > 80 * Scale

\* C24: find_assembly_clusters is greedy with the first member of each
\* cluster as its seed (the first assembly not grouped earlier): every other
\* member of a cluster has similarity to the seed strictly greater than 80,
\* and a cluster contains every assembly that was not grouped into an
\* earlier cluster and whose similarity to the seed exceeds 80; membership
\* is decided against the seed only
C24_GreedyAgainstSeed ==
    ClustersReturned
    => \A k \in 1..Len(output.result) :
           LET cluster == output.result[k]
               seed    == cluster[1]
               free    == SelectSeq(input.assemblies, LAMBDA a : a \notin GroupedBefore(k))
           IN  /\ free # <<>> /\ seed = free[1]
               /\ \A c \in 2..Len(cluster) : Exceeds80(seed, cluster[c])
               /\ \A i \in 2..Len(free) :
                      Exceeds80(seed, free[i]) => free[i] \in Range(cluster)

\* a cluster of a seed and two members that are not similar to each other
C24_Witness ==
    /\ ClustersReturned
    /\ \E k \in 1..Len(output.result) :
           LET cluster == output.result[k]
           IN  /\ Len(cluster) = 3
               /\ ~Exceeds80(cluster[2], cluster[3])
               /\ ~Exceeds80(cluster[3], cluster[2])

\* the places (cluster, position) an assembly holds in the clusters
ClusterPlaces(a) ==
    {p \in (1..Len(output.result)) \X (1..MaxAssemblies + 1) :
        p[2] <= Len(output.result[p[1]]) /\ output.result[p[1]][p[2]] = a}

\* C25: the clusters returned by find_assembly_clusters partition the input
\* assemblies, for any assembly list without duplicates and any similarity
\* matrix: every assembly occurs in exactly one cluster, no cluster is
\* empty, and the cluster sizes sum to the number of assemblies
C25_ClustersPartition ==
    ClustersReturned
    => /\ \A a \in Range(input.assemblies) : Cardinality(ClusterPlaces(a)) = 1
       /\ \A k \in 1..Len(output.result) :
              /\ output.result[k] # <<>>
              /\ Range(output.result[k]) \subseteq Range(input.assemblies)
       /\ SumSet([k \in 1..Len(output.result) |-> Len(output.result[k])],
                 1..Len(output.result)) = Len(input.assemblies)

\* three assemblies in two clusters, the later one holding an assembly that
\* is similar to a member of the earlier one
C25_Witness ==
    /\ ClustersReturned
    /\ Len(input.assemblies) = 3
    /\ Len(output.result) = 2
    /\ \E a \in Range(output.result[1]) : \E b \in Range(output.result[2]) :
           Exceeds80(a, b) \/ Exceeds80(b, a)

----------------------------------------------------------------------------
(* The cluster count of the dimensional clustering                         *)

\* the cluster count has been resolved
CountResolved == fn = "resolve_n_clusters"

\* C26: in dimensional clustering the resolved cluster count k is clamped to
\* the range [2, number of rows] whenever the caller supplies n_clusters (for
\* every row count >= 1 and every integer n_clusters, 2 <= k <= rows), and
\* equals min(5, max(2, rows // 3)) when n_clusters is not supplied
C26_CountClamped ==
    CountResolved
    => IF input.n_clusters # <<>>
       THEN 2 <= output.result /\ output.result <= input.rows
       ELSE output.result
                = (LET third == input.rows \div 3
                       floor == IF third < 2 THEN 2 ELSE third
                   IN  IF floor > 5 THEN 5 ELSE floor)

----------------------------------------------------------------------------
(* ml_pipeline.py: run_clustering                                          *)
(* A table is [columns, dtypes, rows]: the dtype of a column is "object"   *)
(* or a number dtype; a row is the tuple of its cells; a float is a        *)
(* multiple of 1 / Scale and NaN is a missing value.                       *)

s_width == <<"w", "i", "d", "t", "h">>
s_height == <<"h", "e", "i", "g", "h", "t">>
s___cluster == <<"_", "_", "c", "l", "u", "s", "t", "e", "r">>

\* df.select_dtypes(include=[np.number]).columns
number_columns(df) ==
    LET at == SelectSeq([i \in 1..Len(df.columns) |-> i],
                        LAMBDA i : df.dtypes[i] # "object")
    IN  [k \in 1..Len(at) |-> df.columns[at[k]]]

\* the position of a column of the table
ColumnAt(df, name) == CHOOSE i \in 1..Len(df.columns) : df.columns[i] = name

\* line 56: df['__cluster'] = labels, a column of integers, written into
\* the table of the caller
assign_cluster(df, labels) ==
    IF HasColumn(df.columns, s___cluster)
    THEN [columns |-> df.columns,
          dtypes  |-> [df.dtypes EXCEPT ![ColumnAt(df, s___cluster)] = "int64"],
          rows    |-> [i \in 1..Len(df.rows) |->
                          [df.rows[i] EXCEPT ![ColumnAt(df, s___cluster)] = labels[i]]]]
    ELSE [columns |-> Append(df.columns, s___cluster),
          dtypes  |-> Append(df.dtypes, "int64"),
          rows    |-> [i \in 1..Len(df.rows) |-> Append(df.rows[i], labels[i])]]

\* the k-th smallest of a list of numbers
KthSmallest(values, k) ==
    CHOOSE v \in Range(values) :
        /\ Cardinality({i \in 1..Len(values) : values[i] < v}) < k
        /\ Cardinality({i \in 1..Len(values) : values[i] <= v}) >= k

\* Series.median(): missing values skipped, NaN when none is left, the mean
\* of the two middle values for an even count
median(cells) ==
    LET values == SelectSeq(cells, LAMBDA v : v # NaN)
        n == Len(values)
    IN  IF n = 0 THEN NaN
        ELSE IF n % 2 = 1 THEN KthSmallest(values, (n + 1) \div 2)
        ELSE (KthSmallest(values, n \div 2) + KthSmallest(values, (n \div 2) + 1)) \div 2

\* lines 60-70: the entry of reps for label c; members are the rows of the
\* table that now holds __cluster
cluster_rep(df, c) ==
    LET members == SelectSeq(df.rows, LAMBDA row : row[ColumnAt(df, s___cluster)] = c)
    IN  IF c = -1 THEN [type |-> "outlier", count |-> Len(members)]
        ELSE [type |-> "cluster",
              count |-> Len(members),
              representative |->
                  [name \in Range(number_columns(df)) |->
                      median([m \in 1..Len(members) |-> members[m][ColumnAt(df, name)]])]]

\* line 35: k = min(8, max(2, int(sqrt(n)))), for n up to 15
pipeline_k(n) == Min2(8, Max2(2, IF n >= 9 THEN 3 ELSE IF n >= 4 THEN 2 ELSE IF n >= 1 THEN 1 ELSE 0))

\* lines 33-52: the label vectors the chosen algorithm may return; none when
\* the library raises (KMeans on fewer samples than clusters, agglomerative
\* clustering on fewer than two samples)
PipelineLabels(algorithm, n) ==
    CASE algorithm = "kmeans" ->
             IF n < pipeline_k(n) THEN {} ELSE KMeansLabels(n, pipeline_k(n))
      [] algorithm = "agglomerative" ->
             IF n < 2 THEN {} ELSE HierarchicalLabels(n, n)
      [] OTHER -> DbscanLabels(n)

\* run_clustering for one outcome of the clustering library: the returned
\* dictionary and the caller's table after the call
run_clustering(df, labels) ==
    LET numeric == number_columns(df)
        after   == assign_cluster(df, labels)
    IN  [results |->
             [labels |-> labels,
              reps |-> [c \in LabelsOf(labels) |-> cluster_rep(after, c)],
              umap |-> [i \in 1..Len(df.rows) |-> <<"float", "float">>],
              feature_columns |-> numeric],
         df |-> after]

\* the cells of a weldment row: an identifier and two measures
PipelineRows ==
    {<<id, w, h>> : id \in {<<"W">>}, w \in {1 * Scale, 4 * Scale}, h \in {2 * Scale, NaN}}

\* tables of measures, and a table without a numeric column
PipelineInit ==
    /\ SvcInit
    /\ fn = "idle"
    /\ output = <<>>
    /\ \E n \in 0..MaxRows : \E rows \in [1..n -> PipelineRows] :
           \/ input = [columns |-> <<s_assy_pn, s_width, s_height>>,
                       dtypes  |-> <<"object", "float64", "float64">>,
                       rows    |-> rows]
           \/ input = [columns |-> <<s_assy_pn>>,
                       dtypes  |-> <<"object">>,
                       rows    |-> [i \in 1..n |-> <<rows[i][1]>>]]

Call_run_clustering ==
    /\ fn = "idle"
    /\ fn' = "ml_pipeline.run_clustering"
    /\ UNCHANGED input
    /\ \E algorithm \in {"kmeans", "agglomerative", "hdbscan"} :
           IF number_columns(input) = <<>>
           THEN output' = [raised |-> FALSE, algorithm |-> algorithm,
                           results |-> [error |-> "No numeric features found"],
                           df |-> input]
           ELSE IF PipelineLabels(algorithm, Len(input.rows)) = {}
           THEN output' = [raised |-> TRUE, algorithm |-> algorithm]
           ELSE \E labels \in PipelineLabels(algorithm, Len(input.rows)) :
                    \* line 73-74: UMAP may raise on a table of so few rows
                    \/ output' = [raised |-> TRUE, algorithm |-> algorithm]
                    \/ output' = [raised |-> FALSE, algorithm |-> algorithm,
                                  results |-> run_clustering(input, labels).results,
                                  df |-> run_clustering(input, labels).df]
    /\ UNCHANGED svc_vars
    /\ UNCHANGED upload_vars

PipelineNext == Call_run_clustering

PipelineSpec == PipelineInit /\ [][PipelineNext]_vars

\* run_clustering has returned its results
ClusteringReturned ==
    /\ fn = "ml_pipeline.run_clustering"
    /\ ~output.raised
    /\ "reps" \in DOMAIN output.results

\* the cells of the members of label c in a column of the table given
MemberCells(c, name) ==
    LET at == SelectSeq([i \in 1..Len(input.rows) |-> i],
                        LAMBDA i : output.results.labels[i] = c)
    IN  [m \in 1..Len(at) |-> input.rows[at[m]][ColumnAt(input, name)]]

\* v is a median of the cells that hold a value: half of them at least are
\* not above it and half at least are not below it
IsMedian(v, cells) ==
    LET values == SelectSeq(cells, LAMBDA x : x # NaN)
        n == Len(values)
    IN  IF n = 0 THEN v = NaN
        ELSE /\ 2 * Cardinality({i \in 1..n : values[i] <= v}) >= n
             /\ 2 * Cardinality({i \in 1..n : values[i] >= v}) >= n

\* the representatives are the medians of the members, over the given keys
RepresentativesOver(keys) ==
    \A c \in DOMAIN output.results.reps :
        LET rep == output.results.reps[c]
            count == Cardinality({i \in 1..Len(input.rows) : output.results.labels[i] = c})
        IN  IF c = -1
            THEN rep = [type |-> "outlier", count |-> count]
            ELSE /\ rep.type = "cluster" /\ rep.count = count
                 /\ DOMAIN rep.representative = keys
                 /\ \A name \in Range(output.results.feature_columns) :
                        IsMedian(rep.representative[name], MemberCells(c, name))

\* C27: in run_clustering the representative of every non-noise cluster is
\* the per-feature median of its members over exactly the feature columns
\* reported in feature_columns (its keys equal feature_columns, with no key
\* introduced by the pipeline itself), and the noise label -1 gets an
\* outlier marker with a member count and no representative
C27_RepresentativeOverFeatures ==
    ClusteringReturned => RepresentativesOver(Range(output.results.feature_columns))

----------------------------------------------------------------------------
(* Rejected and successful uploads                                         *)

UploadEndpoints == {"upload_weldments", "upload_boms"}

\* the registry holds after the step what it held before and one new entry,
\* under the id the response returns
OneEntryAdded(before, after, answer) ==
    /\ answer.body.file_id \notin DOMAIN before
    /\ DOMAIN after = DOMAIN before \cup {answer.body.file_id}
    /\ \A fid \in DOMAIN before : after[fid] = before[fid]

\* C28: an upload request that is rejected (unsupported filename extension,
\* parse failure or validation failure) adds no entry to weldment_data or
\* bom_data and leaves every existing registry entry unchanged; only a
\* successful upload adds exactly one new entry, under the id it returns
C28_RejectedUploadStoresNothing ==
    [][/\ (response'.endpoint \in UploadEndpoints /\ response'.status # 200)
          => weldment_data' = weldment_data /\ bom_data' = bom_data
       /\ (response'.endpoint = "upload_weldments" /\ response'.status = 200
              /\ response' # response)
          => /\ OneEntryAdded(weldment_data, weldment_data', response')
             /\ bom_data' = bom_data
       /\ (response'.endpoint = "upload_boms" /\ response'.status = 200
              /\ response' # response)
          => /\ OneEntryAdded(bom_data, bom_data', response')
             /\ weldment_data' = weldment_data
       /\ DOMAIN weldment_data' # DOMAIN weldment_data
          => response'.endpoint = "upload_weldments" /\ response'.status = 200
       /\ DOMAIN bom_data' # DOMAIN bom_data
          => response'.endpoint = "upload_boms" /\ response'.status = 200]_vars

\* an upload was rejected after its file was written to the uploads
\* directory, while the registries hold an earlier upload
C28_Witness ==
    /\ response.endpoint \in UploadEndpoints
    /\ response.status = 400
    /\ response.request \in uploads_dir
    /\ DOMAIN weldment_data \cup DOMAIN bom_data # {}

----------------------------------------------------------------------------
(* preprocess_bom_file on tables with any header                           *)

PRICE_raw == <<"P", "r", "i", "c", "e">>
UNIT_PRICE_raw == <<"U", "n", "i", "t", " ", "P", "r", "i", "c", "e">>
CURRENCY_raw == <<"C", "u", "r", "r", "e", "n", "c", "y">>
ASSEMBLY_ID_raw == <<"A", "s", "s", "e", "m", "b", "l", "y", " ", "I", "D">>

\* the column names a file may carry; no two of them clean to component
HeaderNames ==
    {COMPONENT_raw, PART_NO_raw, LEV_raw, PRICE_raw, UNIT_PRICE_raw, CRCY_raw,
     CURRENCY_raw, ASSEMBLY_ID_raw, s_assembly_id}

\* the columns of these that hold text; the others hold numbers
TextNames == {COMPONENT_raw, PART_NO_raw, CRCY_raw, CURRENCY_raw, ASSEMBLY_ID_raw, s_assembly_id}

\* the cell of a row of the given kind under a column
KindCell(kind, name) ==
    IF name \in TextNames THEN (IF kind = 0 THEN <<"A">> ELSE <<"B">>) ELSE kind

\* how often a name occurs in a header
Occurrences(columns, name) == Cardinality({i \in 1..Len(columns) : columns[i] = name})

\* lines 64, 74, 80-81 and 86: bom_df[name] is a DataFrame when the header
\* holds the name twice; pd.to_numeric raises TypeError on it, and it has
\* no .str accessor
preprocess_raises(columns) ==
    \E name \in {s_lev, s_quantity, s_unit_price, s_currency} :
        Occurrences(columns, name) > 1

\* tables whose header holds no name twice as read
HeaderInit ==
    /\ SvcInit
    /\ fn = "idle"
    /\ output = <<>>
    /\ \E n \in 0..MaxColumns : \E columns \in [1..n -> HeaderNames] :
           /\ \A i \in 1..n : \A j \in 1..n : i # j => columns[i] # columns[j]
           /\ \E k \in 0..MaxRows : \E kinds \in [1..k -> {0, 1}] :
                  input = [columns |-> columns,
                           rows |-> [i \in 1..k |->
                                        [j \in 1..n |-> KindCell(kinds[i], columns[j])]]]

\* preprocess_bom_file on the table: the header after the renames (line
\* 60), the table returned unless the call raises, and the table of the
\* caller after the call, which line 26 copies
Call_preprocess_any_header ==
    /\ fn = "idle"
    /\ fn' = "preprocess_bom_file"
    /\ UNCHANGED input
    /\ \E renamed \in {Tuple(preprocess_columns(input.columns))} :
           output' =
               IF preprocess_raises(renamed)
               THEN [raised |-> TRUE, renamed |-> renamed, bom_df |-> input]
               ELSE [raised |-> FALSE, renamed |-> renamed, bom_df |-> input,
                     result |-> preprocess_rows(renamed, input.rows)]
    /\ UNCHANGED svc_vars
    /\ UNCHANGED upload_vars

HeaderNext == Call_preprocess_any_header

HeaderSpec == HeaderInit /\ [][HeaderNext]_vars

CanonicalColumns ==
    {s_component, s_lev, s_quantity, s_unit_price, s_currency, s_assembly_id, s_is_assembly}

\* C29: for any input table (any set of column names) the table returned by
\* preprocess_bom_file has the same rows in the same order as the input and
\* contains each of the columns component, lev, quantity, unit_price,
\* currency, assembly_id and is_assembly exactly once (the heuristic renaming
\* never produces two columns with the same canonical name), and the
\* caller's input table is not modified
C29_CanonicalColumnsOnce ==
    fn = "preprocess_bom_file"
    => /\ \A name \in CanonicalColumns : Occurrences(output.renamed, name) <= 1
       /\ ~output.raised
       /\ \A name \in CanonicalColumns : Occurrences(output.result.columns, name) = 1
       /\ Len(output.result.rows) = Len(input.rows)
       /\ \A i \in 1..Len(input.rows) :
              HasColumn(output.renamed, s_component)
              => output.result.rows[i].component
                     = Cell(output.renamed, input.rows[i], s_component)
       /\ output.bom_df = input

(* The replacement rows of one pair                                        *)

\* the rows of the table that belong to a pair
RowsOfPair(pair) ==
    SelectSeq(output.result, LAMBDA r : r.bom_a = pair.bom_a /\ r.bom_b = pair.bom_b)

\* C30: for a pair of assemblies with component name sets A and B,
\* _compute_replacement_rows_for_pair returns exactly 2 x |A \ B| x |B \ A|
\* rows, and every row's new match percentage is
\* (|A n B| + 1) / (|A u B| - 1) x 100 (to two decimals), so every row's
\* percentage delta against the pair's baseline Jaccard percentage is
\* strictly positive
C30_ReplacementRowsOfPair ==
    ReplacementTableReturned
    => \A k \in 1..Len(output.similar_pairs) :
           LET pair  == output.similar_pairs[k]
               set_a == DOMAIN input.components[pair.bom_a]
               set_b == DOMAIN input.components[pair.bom_b]
               inter == Cardinality(set_a \cap set_b)
               union == Cardinality(set_a \cup set_b)
               rows  == RowsOfPair(pair)
           IN  /\ Len(rows) = 2 * Cardinality(set_a \ set_b) * Cardinality(set_b \ set_a)
               /\ \A i \in 1..Len(rows) :
                      /\ rows[i].New_MatchPct = RoundDiv((inter + 1) * 10000, union - 1)
                      /\ rows[i].DeltaPct > 0
                      /\ rows[i].DeltaPct - (rows[i].New_MatchPct - RoundDiv(inter * 10000, union))
                             \in {-1, 0, 1}

\* a pair that shares one component, with two components only in the first
\* assembly and one only in the second: four rows, from 25 to 66.67 percent
C30_Witness ==
    /\ ReplacementTableReturned
    /\ Len(output.similar_pairs) = 1
    /\ Len(output.result) = 4
    /\ \A i \in 1..4 : /\ output.result[i].New_MatchPct = 6667
                       /\ output.result[i].DeltaPct = 4167

====
